---- MODULE Spec2Model ----
(***************************************************************************)
(* The data-acquisition layer of fund_quant_bot (src/data_layer.py):       *)
(* PersistentCache (a TTL cache in a SQLite table), DataSource (a circuit  *)
(* breaker per source), DataSourceRegistry and DataFetcher's               *)
(* fetch_with_fallback.                                                    *)
(*                                                                         *)
(* Time is the value time.time() returns, in whole seconds.  The clock is  *)
(* read at second 0 and at the seconds from the breaker's cooldown on, so  *)
(* that a deadline set at 0 (expires_at, last_fail_time + timeout) is met  *)
(* exactly or missed by one second.                                        *)
(*                                                                         *)
(* The specifications share the variables:                                 *)
(*   CacheSpec    a client calling PersistentCache's methods,              *)
(*   BreakerSpec  a client calling DataSource's methods,                   *)
(*   ThreadSpec   threads interleaving inside DataSource's methods,        *)
(*   Spec         callers of DataFetcher.fetch_with_fallback,              *)
(*   NoAkshareSpec the same callers without the akshare package,          *)
(*   SectorSpec   callers of sector_fund_flow_core,                        *)
(*   FlowSpec     clients of GET /api/sector_fund_flow,                    *)
(*   LockSpec     threads inside GET /api/sector_fund_flow,                *)
(*   RecSpec      requests to /api/recommendations,                        *)
(*   RecThreadSpec threads inside the recommendations routes,              *)
(*   ParserSpec   the cell parsers of the backend services,                *)
(*   GzSpec       portfolio_service.fetch_fund_gz,                         *)
(*   ColSpec      the column pickers,                                      *)
(*   RetrySpec    the retry loops inside one adapter call,                 *)
(*   ProxySpec    threads entering and leaving akshare_no_proxy.           *)
(***************************************************************************)
EXTENDS Integers, Sequences, FiniteSets, TLC

VARIABLES
    now,             \* what time.time() returns
    ak,              \* whether `import akshare` succeeded (module level)
    process,         \* os.environ's proxy variables and the attributes of
                     \* requests that akshare_no_proxy replaces
    rows,            \* the cache table: key -> row, or NoRow
    fail_count,      \* DataSource.fail_count, per registered source
    last_fail_time,  \* DataSource.last_fail_time, per registered source
    streak,          \* history: per source, record_failure calls since the last
                     \* record_success, and whether the circuit opened since then
    last,            \* history: the last call made, its arguments and its outcome
    sector_cache,    \* sector_flow_service._SECTOR_CACHE: key -> entry, or NoEntry
    board_provider,  \* settings.fund_board_provider
    ts,              \* whether `import tushare` succeeded (module level)
    out,             \* history: the reply of the last call to a backend service
    rec_cache,       \* routers/recommendations._CACHE
    today,           \* date.today(), in days
    refresh_queued,  \* whether a _background_refresh task waits to run
    flow_cache,      \* routers/market._flow_cache: key -> entry, or NoFlow
    locks,           \* the thread holding _flow_cache_lock and the one holding
                     \* _CACHE_LOCK, 0 when the lock is free
    thread           \* per thread sharing the DataFetcher: where it stands in a
                     \* DataSource method, the fail_count it read there, and
                     \* history: the record_failure calls it began and whether
                     \* it ever wrote fail_count = 0

\* the state of data_layer's fetcher, and of the modules of the process
fetcher == <<ak, process, rows, fail_count, last_fail_time, streak, last>>

\* the state of sector_flow_service
sector == <<sector_cache, board_provider, ts>>

\* the state of routers/recommendations
recommendations == <<rec_cache, today, refresh_queued>>

\* the state of routers/market, the locks and the threads
rest == <<flow_cache, locks, thread>>

\* the state of the backend services
services == <<sector_cache, board_provider, ts, out, rec_cache, today, refresh_queued,
              flow_cache, locks, thread>>

vars == <<now, ak, process, rows, fail_count, last_fail_time, streak, last,
          sector_cache, board_provider, ts, out, rec_cache, today, refresh_queued,
          flow_cache, locks, thread>>

-----------------------------------------------------------------------------
(* Program constants *)

circuit_breaker_threshold == 3

circuit_breaker_timeout == 300

ttl_seconds == 300

(* Bounds of the model *)

MaxTime == 301

MaxFails == 4

-----------------------------------------------------------------------------
(* Python values *)

None == [kind |-> "None", time |-> "none"]

\* a plain JSON dict, such as {"hello": "world"}
PlainDict == [kind |-> "dict", time |-> "none"]

\* the record _fetch_eastmoney_fundgz builds: its "time" field is a datetime
Quote == [kind |-> "quote", time |-> "datetime"]

\* the pandas DataFrame get_fund_history's fetch builds
DataFrame == [kind |-> "DataFrame", time |-> "none"]

\* the clock readings of the model
Instants == {0} \cup (circuit_breaker_timeout..MaxTime)

\* Optional[int] arguments: {} is None, {n} is the integer n
TtlArgs == {{}, {0}, {1}, {ttl_seconds}}

-----------------------------------------------------------------------------
(* PersistentCache *)

\* fetchone() found no row
NoRow == [value |-> [json |-> None], created_at |-> -1, expires_at |-> -1]

\* json.dumps(value, ensure_ascii=False, default=str): what is not JSON
\* (a datetime, a DataFrame) is replaced by its str()
JsonDumps(value) ==
    CASE value.kind = "DataFrame" -> [json |-> [kind |-> "str", time |-> "none"]]
      [] value.time = "datetime"  -> [json |-> [value EXCEPT !.time = "str"]]
      [] OTHER                    -> [json |-> value]

JsonLoads(text) == text.json

\* ttl = ttl or self.ttl_seconds
EffectiveTtl(ttl) ==
    IF ttl = {} \/ ttl = {0} THEN ttl_seconds ELSE CHOOSE n \in ttl : TRUE

\* the SELECT of get: WHERE key = ? AND expires_at > now
SelectFresh(table, key, t) ==
    IF table[key] # NoRow /\ table[key].expires_at > t THEN table[key] ELSE NoRow

\* PersistentCache.get's return value at time t
CacheGet(table, key, t) ==
    LET result == SelectFresh(table, key, t)
    IN  IF result # NoRow THEN JsonLoads(result.value) ELSE None

\* the table after PersistentCache.set at time t: INSERT OR REPLACE
CacheSet(table, key, value, ttl, t) ==
    [table EXCEPT ![key] = [value      |-> JsonDumps(value),
                            created_at |-> t,
                            expires_at |-> t + EffectiveTtl(ttl)]]

\* the table after PersistentCache.clear_expired: DELETE WHERE expires_at < now
ClearExpired(table, t) ==
    [k \in DOMAIN table |->
        IF table[k] # NoRow /\ table[k].expires_at < t THEN NoRow ELSE table[k]]

\* the reads PersistentCache has: get is its only method that returns a value
CacheReads == {"get"}

\* what a read of CacheReads returns, and whether it says the value is stale
ReadResult(op, table, key, t) ==
    [value |-> CacheGet(table, key, t), is_stale |-> FALSE]

-----------------------------------------------------------------------------
(* DataSource: the circuit breaker *)

\* an is_available that lets the source back in at the end of the cooldown
IsAvailableAtCooldown(fc, lft, t) ==
    fc < circuit_breaker_threshold \/ t - lft >= circuit_breaker_timeout

\* is_available's return value for a source with the given fields at time t
IsAvailableResult(fc, lft, t) ==
    IF fc < circuit_breaker_threshold THEN TRUE
    ELSE IF t - lft > circuit_breaker_timeout THEN TRUE
    ELSE FALSE

\* fail_count after is_available: reset once the cooldown has passed
IsAvailableCount(fc, lft, t) ==
    IF fc < circuit_breaker_threshold THEN fc
    ELSE IF t - lft > circuit_breaker_timeout THEN 0
    ELSE fc

\* a record_success that leaves the count as it is
RecordSuccessKeepsCount(fc) == fc

\* record_success: fail_count = 0
RecordSuccessCount(fc) == 0

\* record_failure: fail_count += 1
RecordFailureCount(fc) == fc + 1

-----------------------------------------------------------------------------
(* DataSourceRegistry and DataFetcher._register_sources *)

\* DataSource(name, priority) registered under data_type; id names it in the model
Src(dt, name, priority) ==
    [id |-> dt \o "/" \o name, data_type |-> dt, name |-> name, priority |-> priority]

\* the register calls of _register_sources, in order
RegisterSources(akshare) ==
    <<Src("fund_realtime", "eastmoney_fundgz", 100),
      Src("fund_realtime", "akshare", 80)>>
    \o (IF akshare
        THEN <<Src("fund_history", "akshare", 100),
               Src("board_flow", "akshare_industry", 100),
               Src("board_flow", "akshare_concept", 90)>>
        ELSE <<>>)
    \o <<Src("news", "sina", 100),
         Src("news", "eastmoney_rss", 90)>>

\* self.registry once DataFetcher.__init__ has run, with and without akshare
Registry == [akshare \in BOOLEAN |-> RegisterSources(akshare)]

Range(seq) == {seq[i] : i \in DOMAIN seq}

Ids(seq) == {seq[i].id : i \in DOMAIN seq}

\* self.sources[data_type].values(): the sources of a type, in insertion order
RECURSIVE SourcesOf(_, _)
SourcesOf(reg, dt) ==
    IF reg = <<>> THEN <<>>
    ELSE (IF Head(reg).data_type = dt THEN <<Head(reg)>> ELSE <<>>)
         \o SourcesOf(Tail(reg), dt)

\* list.sort(key=priority, reverse=True) is stable: x goes behind every element
\* whose priority is not lower
RECURSIVE InsertByPriority(_, _)
InsertByPriority(x, sorted) ==
    IF sorted = <<>> THEN <<x>>
    ELSE IF Head(sorted).priority >= x.priority
         THEN <<Head(sorted)>> \o InsertByPriority(x, Tail(sorted))
         ELSE <<x>> \o sorted

RECURSIVE SortByPriority(_)
SortByPriority(seq) ==
    IF seq = <<>> THEN <<>>
    ELSE InsertByPriority(seq[Len(seq)], SortByPriority(SubSeq(seq, 1, Len(seq) - 1)))

\* a list comprehension without its condition
FilterNothing(seq, fc, lft, t) == seq

\* [s for s in ... if s.is_available()]
RECURSIVE FilterAvailable(_, _, _, _)
FilterAvailable(seq, fc, lft, t) ==
    IF seq = <<>> THEN <<>>
    ELSE (IF IsAvailableResult(fc[Head(seq).id], lft[Head(seq).id], t)
          THEN <<Head(seq)>> ELSE <<>>)
         \o FilterAvailable(Tail(seq), fc, lft, t)

\* get_sources' return value: the available sources of the type, by priority
GetSources(reg, dt, fc, lft, t) ==
    SortByPriority(FilterAvailable(SourcesOf(reg, dt), fc, lft, t))

\* fail_count after get_sources: is_available ran on every source of the type
GetSourcesCount(reg, dt, fc, lft, t) ==
    [id \in DOMAIN fc |->
        IF id \in Ids(SourcesOf(reg, dt))
        THEN IsAvailableCount(fc[id], lft[id], t) ELSE fc[id]]

-----------------------------------------------------------------------------
(* DataFetcher._make_cache_key and the requests of the model *)

Codes == {"008888"}

DataTypes == {"fund_realtime", "fund_history"}

\* the data types the model's callers ask for
RequestTypes == {"fund_realtime"}

\* the cache_ttl arguments of the model's callers: the default, None
CacheTtls == {{}}

\* data_type and the sorted k=v parts, joined by ":"
MakeCacheKey(dt, code) == dt \o ":code=" \o code

Keys == {MakeCacheKey(dt, c) : dt \in DataTypes, c \in Codes}

\* what a fetcher_func may return
FetchedValues == {None, Quote}

\* what a client of the cache may store
StoredValues == {None, PlainDict, Quote, DataFrame}

-----------------------------------------------------------------------------
(* backend/services/sector_flow_service.py: sector_fund_flow_core *)

\* settings.sector_cache_ttl_seconds
sector_cache_ttl_seconds == 60

\* _ALLOWED_INDICATOR: the strings for today, 5 days, 10 days
AllowedIndicator == {"today", "5d", "10d"}

\* _ALLOWED_SECTOR_TYPE: the strings for industry, concept and region flows
AllowedSectorType == {"industry", "concept", "region"}

\* the values _normalize_provider returns for the names it knows
Providers == {"auto", "tushare", "akshare", "ths"}

NormalizeProvider(provider) ==
    CASE provider \in {"ak", "akshare", "ak_share"}   -> "akshare"
      [] provider \in {"ts", "tushare", "tu"}         -> "tushare"
      [] provider \in {"ths", "tonghuashun", "10jqka"} -> "ths"
      [] provider \in {"auto", ""}                    -> "auto"
      [] OTHER                                        -> provider

\* _cache_key
SectorCacheKey(provider, indicator, sector_type) ==
    provider \o "::" \o indicator \o "::" \o sector_type

\* the requests of the model: one valid and one invalid indicator and top_n,
\* provider left out (None) or given by an alias
SectorIndicators == {"today", "1d"}

SectorTypes == {"industry"}

SectorTopNs == {0, 30}

SectorProviderArgs == {{}, {"10jqka"}}

SectorKeys ==
    {SectorCacheKey(p, i, st) : p \in Providers, i \in SectorIndicators, st \in SectorTypes}

\* _SECTOR_CACHE.get(ck) found nothing
NoEntry == [fetched_at |-> -1, items |-> <<>>]

\* what the vendors may answer: _fetch_sector_fund_flow_tushare and
\* _fetch_sector_fund_flow_ths return ok with rows or not ok;
\* ak.stock_sector_fund_flow_rank raises three times, or returns a table
\* with or without rows
TushareResults == {"fail", "ok"}

AkshareResults == {"raise", "empty", "rows"}

ThsResults == {"fail", "ok"}

\* no call made yet
NoCall ==
    [op |-> "none", p |-> "", ok |-> FALSE, error |-> FALSE, stale |-> FALSE,
     items |-> <<>>, provider |-> "", fetched_at |-> -1,
     from_cache |-> FALSE, expired |-> FALSE, contacted |-> <<>>]

\* rows in a vendor's ranking when it has any
UpstreamRows == 2

\* a vendor's ranking, best first
Ranking(vendor) == [i \in 1..UpstreamRows |-> [provider |-> vendor, rank |-> i]]

\* seq[: n]
Take(seq, n) == SubSeq(seq, 1, IF n < Len(seq) THEN n ELSE Len(seq))

\* routers/market._FLOW_CACHE_TTL_SECONDS
FLOW_CACHE_TTL_SECONDS == 60

\* _flow_cache_key: the provider as given, 'auto' when left out
FlowCacheKey(indicator, sector_type, provider) ==
    <<indicator, sector_type,
      IF provider = {} \/ provider = {""} THEN "auto" ELSE CHOOSE x \in provider : TRUE>>

FlowKeys ==
    {FlowCacheKey(i, st, p) : i \in SectorIndicators, st \in SectorTypes,
                              p \in SectorProviderArgs}

\* _flow_cache.get(key) found nothing
NoFlow == [_ts |-> -1, _top_n |-> -1, data |-> NoCall]

\* the top_n of the router's clients: below, at and above the rows upstream
FlowTopNs == 1..(UpstreamRows + 1)

\* a provider setting for which a failed AkShare call goes on to THS
AlwaysFallsBackToThs(p) == TRUE

\* `if p in ("auto", "akshare")` in the except branch of the AkShare call
FallsBackToThs(p) == p \in {"auto", "akshare"}

\* `if p in ("tushare", "auto") and ts is not None`
TriesTushare(p, ts_installed) == p \in {"tushare", "auto"} /\ ts_installed

\* sector_fund_flow_core once its arguments are checked: the cache after the
\* call and the reply, given what each vendor would answer at time t
SectorCore(p, ck, cache, ts_installed, t, top_n, r_ts, r_ak, r_ths) ==
    LET cached == cache[ck]
        hit == cached # NoEntry
        expired == hit /\ t - cached.fetched_at > sector_cache_ttl_seconds
        base == [NoCall EXCEPT !.op = "sector", !.p = p, !.expired = expired]
        c1 == IF TriesTushare(p, ts_installed) THEN <<"tushare">> ELSE <<>>
        Live(vendor, items, contacted) ==
            [cache |-> [cache EXCEPT ![ck] = [fetched_at |-> t, items |-> items]],
             out   |-> [base EXCEPT !.ok = TRUE, !.stale = FALSE, !.items = items,
                                    !.provider = vendor, !.fetched_at = t,
                                    !.contacted = contacted]]
        \* the two returns after every vendor tried has failed
        Failed(vendor, contacted) ==
            IF hit /\ cached.items # <<>>
            THEN [cache |-> cache,
                  out   |-> [base EXCEPT !.ok = TRUE, !.stale = TRUE,
                                         !.items = Take(cached.items, top_n),
                                         !.provider = "cache",
                                         !.fetched_at = cached.fetched_at,
                                         !.from_cache = TRUE,
                                         !.contacted = contacted]]
            ELSE [cache |-> cache,
                  out   |-> [base EXCEPT !.ok = FALSE, !.stale = TRUE,
                                         !.provider = vendor,
                                         !.contacted = contacted]]
    IN  IF hit /\ ~expired
        THEN [cache |-> cache,
              out   |-> [base EXCEPT !.ok = TRUE, !.stale = FALSE,
                                     !.items = Take(cached.items, top_n),
                                     !.provider = "cache",
                                     !.fetched_at = cached.fetched_at,
                                     !.from_cache = TRUE]]
        ELSE IF TriesTushare(p, ts_installed) /\ r_ts = "ok"
        THEN Live("tushare", Take(Ranking("tushare"), top_n), c1)
        ELSE IF p = "ths"
        THEN IF r_ths = "ok"
             THEN Live("ths", Take(Ranking("ths"), top_n), c1 \o <<"ths">>)
             ELSE Failed("ths", c1 \o <<"ths">>)
        ELSE IF r_ak # "raise"
        THEN Live("akshare",
                  IF r_ak = "rows" THEN Take(Ranking("akshare"), top_n) ELSE <<>>,
                  c1 \o <<"akshare">>)
        ELSE IF FallsBackToThs(p)
        THEN IF r_ths = "ok"
             THEN Live("ths", Take(Ranking("ths"), top_n), c1 \o <<"akshare", "ths">>)
             ELSE Failed("akshare", c1 \o <<"akshare", "ths">>)
        ELSE Failed("akshare", c1 \o <<"akshare">>)

-----------------------------------------------------------------------------
(* backend/routers/recommendations.py *)

CACHE_TTL_SECONDS == 300

\* the window before expiry in which a hit queues a background refresh
RefreshWindow == 30

MaxDay == 1

\* threads sharing the one DataFetcher that get_data_fetcher hands out
MaxThreads == 2

Threads == 1..MaxThreads

\* a thread outside every call: where it stands, and its local variables
IdleThread ==
    [pc |-> "idle", fail_count |-> 0, failures |-> 0, zeroed |-> FALSE,
     top_n |-> 0, now |-> 0, cached |-> NoEntry, res |-> NoCall]

\* _CACHE["data"] is None
NoData == [kind |-> "None", at |-> -1, day |-> -1]

\* what compute_daily_result returns when run at time t on day d
DailyResult(t, d) == [kind |-> "result", at |-> t, day |-> d]

\* the dict _compute_recommendations returns when the computation raised
ErrorResult == [kind |-> "_error", at |-> -1, day |-> -1]

\* the dict it returns while another computation runs and nothing is cached
ComputingResult == [kind |-> "_computing", at |-> -1, day |-> -1]

\* what compute_daily_result may do
ComputeOutcomes == {"return", "raise"}

\* the clock readings of the recommendations model: they include one inside
\* the refresh window
RecInstants ==
    {0, CACHE_TTL_SECONDS - RefreshWindow + 1} \cup (CACHE_TTL_SECONDS..MaxTime)

\* _is_cache_valid at time t on day d
IsCacheValid(c, t, d) ==
    IF c.data = NoData THEN FALSE
    ELSE IF c.date # d THEN FALSE
    ELSE t - c.timestamp < CACHE_TTL_SECONDS

\* _compute_recommendations: the cache after it, what it returns and whether
\* compute_daily_result ran
ComputeRecommendations(c, outcome, t, d) ==
    IF c.computing
    THEN [cache |-> c, ran |-> FALSE,
          result |-> IF c.data # NoData THEN c.data ELSE ComputingResult]
    ELSE IF outcome = "return"
    THEN [cache |-> [data |-> DailyResult(t, d), timestamp |-> t, date |-> d,
                     computing |-> FALSE],
          ran |-> TRUE, result |-> DailyResult(t, d)]
    ELSE [cache |-> [c EXCEPT !.computing = FALSE], ran |-> TRUE,
          result |-> ErrorResult]

\* _get_recommendations_data
GetRecommendationsData(c, outcome, t, d) ==
    IF IsCacheValid(c, t, d)
    THEN [cache |-> c, ran |-> FALSE, result |-> c.data]
    ELSE ComputeRecommendations(c, outcome, t, d)

\* the service state at start, the two caches of the sector flows apart
ServicesIdle(provider, ts_installed) ==
    /\ board_provider = provider
    /\ ts = ts_installed
    /\ out = NoCall
    /\ rec_cache = [data |-> NoData, timestamp |-> 0, date |-> -1, computing |-> FALSE]
    /\ today = 0
    /\ refresh_queued = FALSE
    /\ locks = [flow_cache_lock |-> 0, CACHE_LOCK |-> 0]
    /\ thread = [th \in Threads |-> IdleThread]

\* the service state at start: nothing cached, the configured provider
ServicesStart(provider, ts_installed) ==
    /\ sector_cache = [k \in SectorKeys |-> NoEntry]
    /\ flow_cache = [k \in FlowKeys |-> NoFlow]
    /\ ServicesIdle(provider, ts_installed)

-----------------------------------------------------------------------------
(* The history variable `last` *)

Idle ==
    [op |-> "idle", data_type |-> "", key |-> "", src |-> "",
     use_cache |-> FALSE, has_validator |-> FALSE,
     result |-> None, flag |-> FALSE, raised |-> FALSE,
     cache_read |-> "none", cached_verdict |-> "none", from_cache |-> FALSE,
     listed |-> FALSE, built |-> <<>>, invoked |-> <<>>, outcomes |-> <<>>,
     written |-> <<>>, write_failed |-> FALSE, live |-> ""]

-----------------------------------------------------------------------------
(* The process state akshare_no_proxy works on *)

\* the environment variables, by how the context manager treats them:
\* HTTP_PROXY stands for the six proxy variables, NO_PROXY for NO_PROXY and
\* no_proxy
EnvKeys == {"HTTP_PROXY", "NO_PROXY"}

\* `k not in os.environ`
Unset == "unset"

\* requests' own function behind an attribute; a context's replacement is
\* named by the thread that made it
Library == 0

\* the process before any context: a proxy configured, and hosts exempted
ProcessStart ==
    [environ |-> [k \in EnvKeys |-> IF k = "NO_PROXY" THEN "localhost"
                                    ELSE "http://127.0.0.1:7890"],
     get_environ_proxies |-> Library,
     should_bypass_proxies |-> Library,
     request |-> Library]

-----------------------------------------------------------------------------
(* Initial state: a new cache file, DataFetcher() just constructed *)

FetcherNew(akshare) ==
    /\ ak = akshare
    /\ process = ProcessStart
    /\ rows = [k \in Keys |-> NoRow]
    /\ fail_count = [id \in Ids(Registry[akshare]) |-> 0]
    /\ last_fail_time = [id \in Ids(Registry[akshare]) |-> 0]
    /\ streak = [id \in Ids(Registry[akshare]) |->
                    [consec |-> 0, opened |-> FALSE]]
    /\ last = Idle

FetcherStart(akshare) ==
    /\ now = 0
    /\ FetcherNew(akshare)

\* the defaults of backend/core/config.py, tushare not installed
InitWith(akshare) ==
    /\ FetcherStart(akshare)
    /\ ServicesStart("akshare", FALSE)

\* time passes
Tick ==
    /\ \E t \in Instants : t > now /\ now' = t
    /\ last' = Idle
    /\ UNCHANGED <<ak, process, rows, fail_count, last_fail_time, streak>>
    /\ UNCHANGED services

-----------------------------------------------------------------------------
(* CacheSpec: PersistentCache used on its own *)

Get(key) ==
    /\ last' = [Idle EXCEPT !.op = "get", !.key = key,
                            !.result = CacheGet(rows, key, now)]
    /\ UNCHANGED <<now, ak, process, rows, fail_count, last_fail_time, streak>>
    /\ UNCHANGED services

Set(key, value, ttl) ==
    /\ rows' = CacheSet(rows, key, value, ttl, now)
    /\ last' = [Idle EXCEPT !.op = "set", !.key = key]
    /\ UNCHANGED <<now, ak, process, fail_count, last_fail_time, streak>>
    /\ UNCHANGED services

Clear_expired ==
    /\ rows' = ClearExpired(rows, now)
    /\ last' = [Idle EXCEPT !.op = "clear_expired"]
    /\ UNCHANGED <<now, ak, process, fail_count, last_fail_time, streak>>
    /\ UNCHANGED services

CacheInit == InitWith(TRUE)

CacheNext ==
    \/ Tick
    \/ \E key \in Keys : Get(key)
    \/ \E key \in Keys, value \in StoredValues, ttl \in TtlArgs :
          Set(key, value, ttl)
    \/ Clear_expired

CacheSpec == CacheInit /\ [][CacheNext]_vars

-----------------------------------------------------------------------------
(* BreakerSpec: DataSource used on its own *)

BreakerSources == Ids(SourcesOf(Registry[TRUE], "fund_realtime"))

Is_available(s) ==
    /\ fail_count' = [fail_count EXCEPT
                         ![s] = IsAvailableCount(fail_count[s], last_fail_time[s], now)]
    /\ last' = [Idle EXCEPT !.op = "is_available", !.src = s,
                            !.flag = IsAvailableResult(fail_count[s], last_fail_time[s], now)]
    /\ UNCHANGED <<now, ak, process, rows, last_fail_time, streak>>
    /\ UNCHANGED services

Record_success(s) ==
    /\ fail_count' = [fail_count EXCEPT ![s] = RecordSuccessCount(fail_count[s])]
    /\ streak' = [streak EXCEPT ![s] = [consec |-> 0, opened |-> FALSE]]
    /\ last' = [Idle EXCEPT !.op = "record_success", !.src = s]
    /\ UNCHANGED <<now, ak, process, rows, last_fail_time>>
    /\ UNCHANGED services

Record_failure(s) ==
    /\ fail_count[s] < MaxFails
    /\ fail_count' = [fail_count EXCEPT ![s] = RecordFailureCount(fail_count[s])]
    /\ last_fail_time' = [last_fail_time EXCEPT ![s] = now]
    /\ streak' = [streak EXCEPT ![s] =
            [consec |-> IF streak[s].consec > circuit_breaker_threshold
                        THEN streak[s].consec ELSE streak[s].consec + 1,
             opened |-> streak[s].opened
                        \/ fail_count'[s] >= circuit_breaker_threshold]]
    /\ last' = [Idle EXCEPT !.op = "record_failure", !.src = s]
    /\ UNCHANGED <<now, ak, process, rows>>
    /\ UNCHANGED services

BreakerInit == InitWith(TRUE)

BreakerNext ==
    \/ Tick
    \/ \E s \in BreakerSources : Is_available(s)
    \/ \E s \in BreakerSources : Record_success(s)
    \/ \E s \in BreakerSources : Record_failure(s)

BreakerSpec == BreakerInit /\ [][BreakerNext]_vars

-----------------------------------------------------------------------------
(* ThreadSpec: threads calling the methods of one DataSource of the shared   *)
(* DataFetcher.  DataSource holds no lock, so a method is a sequence of      *)
(* steps (read an attribute, read the clock, write an attribute) and the     *)
(* steps of different threads interleave.                                    *)

\* the source the threads share
Shared == "fund_realtime/eastmoney_fundgz"

\* record_failure calls begun by the threads 1..n
RECURSIVE FailuresBegun(_)
FailuresBegun(n) ==
    IF n = 0 THEN 0 ELSE thread[n].failures + FailuresBegun(n - 1)

ThreadFrame ==
    /\ UNCHANGED <<now, ak, process, rows, streak, last>>
    /\ UNCHANGED <<sector, out, recommendations, flow_cache, locks>>

\* record_failure, `self.fail_count += 1`: load the attribute
Rf_read(th) ==
    /\ thread[th].pc = "idle"
    /\ FailuresBegun(MaxThreads) < MaxFails
    /\ thread' = [thread EXCEPT ![th].pc = "rf_write",
                                ![th].fail_count = fail_count[Shared],
                                ![th].failures = @ + 1]
    /\ UNCHANGED <<fail_count, last_fail_time>>
    /\ ThreadFrame

\* record_failure, `self.fail_count += 1`: store the sum
Rf_write(th) ==
    /\ thread[th].pc = "rf_write"
    /\ fail_count' = [fail_count EXCEPT
                         ![Shared] = RecordFailureCount(thread[th].fail_count)]
    /\ thread' = [thread EXCEPT ![th].pc = "rf_time"]
    /\ UNCHANGED last_fail_time
    /\ ThreadFrame

\* record_failure, `self.last_fail_time = time.time()`
Rf_time(th) ==
    /\ thread[th].pc = "rf_time"
    /\ last_fail_time' = [last_fail_time EXCEPT ![Shared] = now]
    /\ thread' = [thread EXCEPT ![th].pc = "idle"]
    /\ UNCHANGED fail_count
    /\ ThreadFrame

\* is_available, `if self.fail_count < self.circuit_breaker_threshold`
Ia_test(th) ==
    /\ thread[th].pc = "idle"
    /\ thread' = [thread EXCEPT
                     ![th].pc = IF fail_count[Shared] < circuit_breaker_threshold
                                THEN "idle" ELSE "ia_clock",
                     ![th].fail_count = fail_count[Shared]]
    /\ UNCHANGED <<fail_count, last_fail_time>>
    /\ ThreadFrame

\* is_available, `if time.time() - self.last_fail_time > self.circuit_breaker_timeout`
Ia_clock(th) ==
    /\ thread[th].pc = "ia_clock"
    /\ thread' = [thread EXCEPT
                     ![th].pc = IF now - last_fail_time[Shared] > circuit_breaker_timeout
                                THEN "ia_reset" ELSE "idle"]
    /\ UNCHANGED <<fail_count, last_fail_time>>
    /\ ThreadFrame

\* is_available, `self.fail_count = 0`
Ia_reset(th) ==
    /\ thread[th].pc = "ia_reset"
    /\ fail_count' = [fail_count EXCEPT ![Shared] = 0]
    /\ thread' = [thread EXCEPT ![th].pc = "idle", ![th].zeroed = TRUE]
    /\ UNCHANGED last_fail_time
    /\ ThreadFrame

\* record_success, `self.fail_count = 0`: a single store
Rs_write(th) ==
    /\ thread[th].pc = "idle"
    /\ fail_count' = [fail_count EXCEPT
                         ![Shared] = RecordSuccessCount(fail_count[Shared])]
    /\ thread' = [thread EXCEPT ![th].zeroed = TRUE]
    /\ UNCHANGED last_fail_time
    /\ ThreadFrame

ThreadInit == InitWith(TRUE)

ThreadNext ==
    \/ Tick
    \/ \E th \in Threads : Rf_read(th)
    \/ \E th \in Threads : Rf_write(th)
    \/ \E th \in Threads : Rf_time(th)
    \/ \E th \in Threads : Ia_test(th)
    \/ \E th \in Threads : Ia_clock(th)
    \/ \E th \in Threads : Ia_reset(th)
    \/ \E th \in Threads : Rs_write(th)

ThreadSpec == ThreadInit /\ [][ThreadNext]_vars

-----------------------------------------------------------------------------
(* Spec: DataFetcher.fetch_with_fallback *)

\* what a validator call may do; "absent" when validator is None
Verdicts(has_validator) ==
    IF has_validator THEN {"accept", "reject", "raise"} ELSE {"absent"}

\* a gate that lets every value through
PassesAlways(verdict) == TRUE

\* validator is None or validator(data)
PassesGate(verdict) == verdict \in {"absent", "accept"}

\* source.record_failure() in the except branch, at time t
Failure(st, s, t) ==
    [st EXCEPT !.fc[s] = RecordFailureCount(@), !.lft[s] = t]

\* source.record_success()
Success(st, s) ==
    [st EXCEPT !.fc[s] = RecordSuccessCount(@)]

\* a rejected answer that is counted like an exception
RejectedCountsAsFailure(st, s, t) == Failure(st, s, t)

\* the validator returned false: the `if` body is skipped, nothing is recorded
Rejected(st, s, t) == st

\* the cached value the call looks at: self.cache.get(cache_key) if use_cache
CachedValue(call, table, t) ==
    IF call.use_cache THEN CacheGet(table, call.key, t) ELSE None

\* the sources whose fetcher needs the akshare package
NeedsAkshare(name) == name \in {"akshare", "akshare_industry", "akshare_concept"}

\* the loop over the sources: every way it can end, given what each
\* fetcher_func call, validator call and cache write may do
RECURSIVE TrySources(_, _, _, _)
TrySources(srcs, st, call, t) ==
    IF srcs = <<>>
    THEN {[st EXCEPT !.h.result = None]}
    ELSE
      LET s   == Head(srcs).id
          st0 == [st EXCEPT !.h.invoked = Append(@, s)]
          \* without the package the akshare fetcher raises ImportError at once
          verdicts == IF NeedsAkshare(Head(srcs).name) /\ ~call.akshare
                      THEN {"raise"} ELSE Verdicts(call.has_validator)
          \* fetcher_func or the validator raises: the except branch
          raised == {Failure([st0 EXCEPT !.h.outcomes = Append(@, "raise")], s, t)}
          \* the validator returns false: nothing is recorded
          rejected == {Rejected([st0 EXCEPT !.h.outcomes = Append(@, "reject")], s, t) : v \in {v \in verdicts : v # "raise" /\ ~PassesGate(v)}}
          st1 == Success(st0, s)
          \* cache.set raises after record_success: the except branch
          write_raised ==
              IF call.use_cache
              THEN {Failure([st1 EXCEPT !.h.write_failed = TRUE,
                                        !.h.outcomes = Append(@, "write_raise")], s, t)
                       : v \in {v \in verdicts : v # "raise" /\ PassesGate(v)}}
              ELSE {}
          returned ==
              {IF call.use_cache
               THEN [st1 EXCEPT !.rows = CacheSet(@, call.key, data, call.ttl, t),
                                !.h.written = Append(@, [data |-> data, verdict |-> v]),
                                !.h.outcomes = Append(@, "return"),
                                !.h.result = data,
                                !.h.live = s]
               ELSE [st1 EXCEPT !.h.outcomes = Append(@, "return"),
                                !.h.result = data, !.h.live = s]
                 : data \in FetchedValues,
                   v \in {v \in verdicts : v # "raise" /\ PassesGate(v)}}
      IN  returned
          \cup UNION {TrySources(Tail(srcs), x, call, t)
                         : x \in raised \cup rejected \cup write_raised}

\* every way one fetch_with_fallback call can end
FetchOutcomes(call, reg, table, fc, lft, t) ==
    LET h0 == [Idle EXCEPT !.op = "fetch", !.data_type = call.data_type,
                           !.key = call.key,
                           !.use_cache = call.use_cache,
                           !.has_validator = call.has_validator]
        st == [rows |-> table, fc |-> fc, lft |-> lft, h |-> h0]
        cached == CachedValue(call, table, t)
        srcs == GetSources(reg, call.data_type, fc, lft, t)
        listed == [st EXCEPT !.fc = GetSourcesCount(reg, call.data_type, fc, lft, t),
                             !.h.listed = TRUE,
                             !.h.built = [i \in DOMAIN srcs |-> srcs[i].id]]
    IN  \* sqlite raises in cache.get
        (IF call.use_cache
         THEN {[st EXCEPT !.h.cache_read = "raise", !.h.raised = TRUE]}
         ELSE {})
        \cup
        (IF cached # None
         THEN UNION {
                IF verdict = "raise"
                THEN {[st EXCEPT !.h.cached_verdict = verdict, !.h.raised = TRUE]}
                ELSE IF PassesGate(verdict)
                THEN {[st EXCEPT !.h.cached_verdict = verdict,
                                 !.h.from_cache = TRUE, !.h.result = cached]}
                ELSE TrySources(srcs, [listed EXCEPT !.h.cached_verdict = verdict], call, t)
              : verdict \in Verdicts(call.has_validator) }
         ELSE TrySources(srcs, listed, call, t))

Fetch_with_fallback(dt, code, has_validator, use_cache, cache_ttl) ==
    LET call == [data_type |-> dt, key |-> MakeCacheKey(dt, code),
                 has_validator |-> has_validator, use_cache |-> use_cache,
                 ttl |-> cache_ttl, akshare |-> ak]
    IN  \E o \in FetchOutcomes(call, Registry[ak], rows, fail_count,
                                last_fail_time, now) :
            /\ rows' = o.rows
            /\ fail_count' = o.fc
            /\ last_fail_time' = o.lft
            /\ last' = o.h
            /\ UNCHANGED <<now, ak, process, streak>>
            /\ UNCHANGED services

Init == InitWith(TRUE)

Next ==
    \/ Tick
    \/ \E dt \in RequestTypes, code \in Codes, has_validator \in BOOLEAN,
          use_cache \in BOOLEAN, cache_ttl \in CacheTtls :
            Fetch_with_fallback(dt, code, has_validator, use_cache, cache_ttl)

Spec == Init /\ [][Next]_vars

\* the same callers in a process where `import akshare` failed
NoAkshareInit == InitWith(FALSE)

NoAkshareSpec == NoAkshareInit /\ [][Next]_vars

-----------------------------------------------------------------------------
(* SectorSpec: callers of sector_fund_flow_core *)

\* the outcomes sector_fund_flow_core can have in the current state: the
\* cache after the call and the reply
SectorReplies(indicator, sector_type, top_n, provider) ==
    IF \/ indicator \notin AllowedIndicator
       \/ sector_type \notin AllowedSectorType
       \/ top_n <= 0 \/ top_n > 200
    THEN {[cache |-> sector_cache,
           out   |-> [NoCall EXCEPT !.op = "sector", !.error = TRUE]]}
    ELSE LET p  == NormalizeProvider(IF provider = {} \/ provider = {""}
                                     THEN board_provider
                                     ELSE CHOOSE x \in provider : TRUE)
             ck == SectorCacheKey(p, indicator, sector_type)
         IN  {SectorCore(p, ck, sector_cache, ts, now, top_n, r_ts, r_ak, r_ths) :
                 r_ts \in TushareResults, r_ak \in AkshareResults,
                 r_ths \in ThsResults}

Sector_fund_flow_core(indicator, sector_type, top_n, provider) ==
    /\ \E o \in SectorReplies(indicator, sector_type, top_n, provider) :
          /\ sector_cache' = o.cache
          /\ out' = o.out
    /\ UNCHANGED <<now, board_provider, ts>>
    /\ UNCHANGED fetcher
    /\ UNCHANGED rest
    /\ UNCHANGED recommendations

SectorInit ==
    /\ FetcherStart(TRUE)
    /\ \E provider \in Providers, ts_installed \in BOOLEAN :
          ServicesStart(provider, ts_installed)

SectorNext ==
    \/ Tick
    \/ \E indicator \in SectorIndicators, sector_type \in SectorTypes,
          top_n \in SectorTopNs, provider \in SectorProviderArgs :
            Sector_fund_flow_core(indicator, sector_type, top_n, provider)

SectorSpec == SectorInit /\ [][SectorNext]_vars

-----------------------------------------------------------------------------
(* FlowSpec: clients of GET /api/sector_fund_flow, which goes through the    *)
(* router's cache to sector_fund_flow_core                                   *)

\* the reply of the router: the service's reply, its items cut to top_n when
\* it comes from the router's cache
FlowReply(data, top_n, from_router) ==
    [op |-> "flow", top_n |-> top_n, cached |-> from_router,
     ok |-> data.ok, stale |-> data.stale, provider |-> data.provider,
     items |-> IF from_router THEN Take(data.items, top_n) ELSE data.items]

Get_sector_fund_flow_cached(indicator, sector_type, top_n, provider) ==
    LET key == FlowCacheKey(indicator, sector_type, provider)
        cached == flow_cache[key]
    IN  /\ IF /\ cached # NoFlow
              /\ now - cached._ts < FLOW_CACHE_TTL_SECONDS
              /\ cached._top_n >= top_n
           THEN /\ out' = FlowReply(cached.data, top_n, TRUE)
                /\ UNCHANGED <<sector_cache, flow_cache>>
           ELSE \E o \in SectorReplies(indicator, sector_type, top_n, provider) :
                   /\ sector_cache' = o.cache
                   /\ flow_cache' = [flow_cache EXCEPT ![key] =
                          [_ts |-> now, _top_n |-> top_n, data |-> o.out]]
                   /\ out' = FlowReply(o.out, top_n, FALSE)
        /\ UNCHANGED <<now, board_provider, ts, locks, thread>>
        /\ UNCHANGED fetcher
        /\ UNCHANGED recommendations

FlowInit == InitWith(TRUE)

FlowNext ==
    \/ Tick
    \/ \E top_n \in FlowTopNs, provider \in SectorProviderArgs :
          Get_sector_fund_flow_cached("today", "industry", top_n, provider)

FlowSpec == FlowInit /\ [][FlowNext]_vars

-----------------------------------------------------------------------------
(* LockSpec: threads of the server's pool in GET /api/sector_fund_flow.  A   *)
(* step is what a thread does between two points where it may have to wait:  *)
(* taking a lock, the statements under the lock, a vendor call.              *)

\* the request the threads make: the defaults of the route
LockKey == FlowCacheKey("today", "industry", {})

LockTopN == 30

\* the lock a thread in front of a `with` statement waits for
WaitsFor(label) ==
    CASE label \in {"flow_enter", "flow_store"} -> "flow_cache_lock"
      [] label \in {"core_enter", "core_store"} -> "CACHE_LOCK"
      [] OTHER                                  -> ""

\* the statements a thread executes under the lock it took
Under(label) ==
    CASE label = "flow_enter" -> "flow_read"
      [] label = "flow_store" -> "flow_write"
      [] label = "core_enter" -> "core_read"
      [] label = "core_store" -> "core_write"
      [] OTHER                -> ""

\* a thread whose call has returned: its locals are gone
Returned(th_state) ==
    [th_state EXCEPT !.pc = "idle", !.top_n = 0, !.now = 0,
                     !.cached = NoEntry, !.res = NoCall]

\* a `with` block that stretches over the vendor calls
CacheLockKeptForFetch(th) == th

\* _CACHE_LOCK after `with _CACHE_LOCK: cached = _SECTOR_CACHE.get(ck)`
CacheLockAfterRead(th) == 0

\* the router is called: `now = time.time()`
Flow_begin(th) ==
    /\ thread[th].pc = "idle"
    /\ thread' = [thread EXCEPT ![th].pc = "flow_enter", ![th].top_n = LockTopN,
                                ![th].now = now, ![th].cached = NoEntry,
                                ![th].res = NoCall]
    /\ UNCHANGED <<now, out, sector, flow_cache, locks>>
    /\ UNCHANGED fetcher
    /\ UNCHANGED recommendations

\* `with <lock>:` entered
Acquire(th) ==
    /\ WaitsFor(thread[th].pc) # ""
    /\ locks[WaitsFor(thread[th].pc)] = 0
    /\ locks' = [locks EXCEPT ![WaitsFor(thread[th].pc)] = th]
    /\ thread' = [thread EXCEPT ![th].pc = Under(@)]
    /\ UNCHANGED <<now, out, sector, flow_cache>>
    /\ UNCHANGED fetcher
    /\ UNCHANGED recommendations

\* the router's first `with _flow_cache_lock:` block
Flow_read(th) ==
    LET cached == flow_cache[LockKey]
        hit == /\ cached # NoFlow
               /\ thread[th].now - cached._ts < FLOW_CACHE_TTL_SECONDS
               /\ cached._top_n >= thread[th].top_n
    IN  /\ thread[th].pc = "flow_read"
        /\ locks' = [locks EXCEPT !.flow_cache_lock = 0]
        /\ thread' = [thread EXCEPT ![th] = IF hit THEN Returned(@)
                                            ELSE [@ EXCEPT !.pc = "core_enter"]]
        /\ UNCHANGED <<now, out, sector, flow_cache>>
        /\ UNCHANGED fetcher
        /\ UNCHANGED recommendations

\* sector_fund_flow_core: `with _CACHE_LOCK: cached = _SECTOR_CACHE.get(ck)`,
\* then the return of a fresh entry
Core_read(th) ==
    LET p  == NormalizeProvider(board_provider)
        ck == SectorCacheKey(p, "today", "industry")
        cached == sector_cache[ck]
        fresh == cached # NoEntry /\ now - cached.fetched_at <= sector_cache_ttl_seconds
        o == SectorCore(p, ck, sector_cache, ts, now, thread[th].top_n,
                        "fail", "raise", "fail")
    IN  /\ thread[th].pc = "core_read"
        /\ locks' = [locks EXCEPT !.CACHE_LOCK = CacheLockAfterRead(th)]
        /\ thread' = [thread EXCEPT
                         ![th].pc = IF fresh THEN "flow_store" ELSE "vendor",
                         ![th].cached = cached,
                         ![th].res = IF fresh THEN o.out ELSE NoCall]
        /\ UNCHANGED <<now, out, sector, flow_cache>>
        /\ UNCHANGED fetcher
        /\ UNCHANGED recommendations

\* the vendor calls of sector_fund_flow_core come back
Vendor_return(th) ==
    LET p  == NormalizeProvider(board_provider)
        ck == SectorCacheKey(p, "today", "industry")
        \* the entry this thread read (none, or one already expired), whatever
        \* the cache holds by now
        seen == [sector_cache EXCEPT ![ck] = thread[th].cached]
    IN  /\ thread[th].pc = "vendor"
        /\ \E r_ts \in TushareResults, r_ak \in AkshareResults, r_ths \in ThsResults :
              LET res == SectorCore(p, ck, seen, ts, now, thread[th].top_n,
                                    r_ts, r_ak, r_ths).out
              IN  thread' = [thread EXCEPT
                                ![th].pc = IF res.ok /\ ~res.from_cache
                                           THEN "core_store" ELSE "flow_store",
                                ![th].res = res]
        /\ UNCHANGED <<now, out, sector, flow_cache, locks>>
        /\ UNCHANGED fetcher
        /\ UNCHANGED recommendations

\* sector_fund_flow_core: `with _CACHE_LOCK: _SECTOR_CACHE[ck] = {...}`
Core_write(th) ==
    LET ck == SectorCacheKey(NormalizeProvider(board_provider), "today", "industry")
    IN  /\ thread[th].pc = "core_write"
        /\ sector_cache' = [sector_cache EXCEPT ![ck] =
                               [fetched_at |-> thread[th].res.fetched_at,
                                items |-> thread[th].res.items]]
        /\ locks' = [locks EXCEPT !.CACHE_LOCK = 0]
        /\ thread' = [thread EXCEPT ![th].pc = "flow_store"]
        /\ UNCHANGED <<now, out, board_provider, ts, flow_cache>>
        /\ UNCHANGED fetcher
        /\ UNCHANGED recommendations

\* the router's second `with _flow_cache_lock:` block, and its return
Flow_write(th) ==
    /\ thread[th].pc = "flow_write"
    /\ flow_cache' = [flow_cache EXCEPT ![LockKey] =
                         [_ts |-> thread[th].now, _top_n |-> thread[th].top_n,
                          data |-> thread[th].res]]
    /\ locks' = [locks EXCEPT !.flow_cache_lock = 0]
    /\ thread' = [thread EXCEPT ![th] = Returned(@)]
    /\ UNCHANGED <<now, out, sector>>
    /\ UNCHANGED fetcher
    /\ UNCHANGED recommendations

\* The requests start at any instant, with the caches empty or as one
\* request at time 0 that AkShare answered has left them.  The clock stands
\* still while the requests run.
LockInit ==
    LET p    == NormalizeProvider("akshare")
        ck   == SectorCacheKey(p, "today", "industry")
        cold == [k \in SectorKeys |-> NoEntry]
        o    == SectorCore(p, ck, cold, FALSE, 0, LockTopN, "fail", "rows", "fail")
    IN  /\ FetcherNew(TRUE)
        /\ ServicesIdle("akshare", FALSE)
        /\ now \in Instants
        /\ \E warm \in BOOLEAN :
              /\ sector_cache = IF warm THEN o.cache ELSE cold
              /\ flow_cache = [k \in FlowKeys |->
                                 IF warm /\ k = LockKey
                                 THEN [_ts |-> 0, _top_n |-> LockTopN, data |-> o.out]
                                 ELSE NoFlow]

LockNext ==
    \/ \E th \in Threads : Flow_begin(th)
    \/ \E th \in Threads : Acquire(th)
    \/ \E th \in Threads : Flow_read(th)
    \/ \E th \in Threads : Core_read(th)
    \/ \E th \in Threads : Vendor_return(th)
    \/ \E th \in Threads : Core_write(th)
    \/ \E th \in Threads : Flow_write(th)

LockSpec == LockInit /\ [][LockNext]_vars

-----------------------------------------------------------------------------
(* RecSpec: clients of GET /api/recommendations *)

RecTick ==
    /\ \E t \in RecInstants : t > now /\ now' = t
    /\ UNCHANGED <<out, rec_cache, today, refresh_queued>>
    /\ UNCHANGED fetcher
    /\ UNCHANGED rest
    /\ UNCHANGED sector

\* the date changes
Midnight ==
    /\ today < MaxDay
    /\ today' = today + 1
    /\ UNCHANGED <<now, out, rec_cache, refresh_queued>>
    /\ UNCHANGED fetcher
    /\ UNCHANGED rest
    /\ UNCHANGED sector

Get_recommendations(force_refresh) ==
    /\ \E outcome \in ComputeOutcomes :
          LET r == IF force_refresh
                   THEN ComputeRecommendations(rec_cache, outcome, now, today)
                   ELSE GetRecommendationsData(rec_cache, outcome, now, today)
              cached == IF force_refresh THEN FALSE
                        ELSE IsCacheValid(r.cache, now, today)
          IN  /\ rec_cache' = r.cache
              /\ refresh_queued' =
                    (\/ refresh_queued
                     \/ /\ cached
                        /\ now - r.cache.timestamp > CACHE_TTL_SECONDS - RefreshWindow)
              /\ out' = [op |-> "recommendations",
                         force_refresh |-> force_refresh,
                         cached |-> cached,
                         computing |-> (r.result = ComputingResult),
                         ran |-> r.ran,
                         result |-> r.result]
    /\ UNCHANGED <<now, today>>
    /\ UNCHANGED fetcher
    /\ UNCHANGED rest
    /\ UNCHANGED sector

\* the queued _background_refresh task runs
Background_refresh ==
    /\ refresh_queued
    /\ refresh_queued' = FALSE
    /\ \E outcome \in ComputeOutcomes :
          rec_cache' = ComputeRecommendations(rec_cache, outcome, now, today).cache
    /\ UNCHANGED <<now, today, out>>
    /\ UNCHANGED fetcher
    /\ UNCHANGED rest
    /\ UNCHANGED sector

RecInit == InitWith(TRUE)

RecNext ==
    \/ RecTick
    \/ Midnight
    \/ \E force_refresh \in BOOLEAN : Get_recommendations(force_refresh)
    \/ Background_refresh

RecSpec == RecInit /\ [][RecNext]_vars

-----------------------------------------------------------------------------
(* The cell parsers of sector_flow_service, portfolio_service, market_scanner *)

\* a decimal number m * 10^e, kept with no trailing zero in m
RECURSIVE Norm(_, _)
Norm(m, e) ==
    IF m = 0 THEN [kind |-> "num", m |-> 0, e |-> 0]
    ELSE IF m % 10 = 0 THEN Norm(m \div 10, e + 1)
    ELSE [kind |-> "num", m |-> m, e |-> e]

\* d * 10^k
Scale(d, k) == Norm(d.m, d.e + k)

Abs(n) == IF n < 0 THEN -n ELSE n

RECURSIVE Digits(_)
Digits(n) == IF n < 10 THEN 1 ELSE 1 + Digits(n \div 10)

\* abs(v) >= 1e6
AtLeastMillion(d) == d.m # 0 /\ Digits(Abs(d.m)) + d.e >= 7

Zero == Norm(0, 0)

\* Python's None and float("nan") as results
Null == [kind |-> "null", m |-> 0, e |-> 0]

NaN == [kind |-> "nan", m |-> 0, e |-> 0]

\* the raw cells: None, a float nan, a number, a marker string, and the text
\* of a number with a suffix (none, %, or the characters for 10^8, 10^4, yuan)
NoneCell == [type |-> "NoneType", text |-> "", d |-> Zero, suffix |-> ""]

NanCell == [type |-> "float", text |-> "nan", d |-> Zero, suffix |-> ""]

NumCell(d) == [type |-> "number", text |-> "", d |-> d, suffix |-> ""]

MarkerCell(t) == [type |-> "marker", text |-> t, d |-> Zero, suffix |-> ""]

TextCell(d, suffix) == [type |-> "str", text |-> "", d |-> d, suffix |-> suffix]

MissingMarkers == {"", "--", "-", "None", "nan", "NaN"}

Suffixes == {"", "%", "yi", "wan", "yuan"}

\* the numbers of the model: 0, 5, 12.98, 3500, -3500, 129800, 999999,
\* 1000000 and 1298000000
Numbers ==
    {Norm(0, 0), Norm(5, 0), Norm(1298, -2), Norm(3500, 0), Norm(-3500, 0),
     Norm(129800, 0), Norm(999999, 0), Norm(1000000, 0), Norm(1298, 6)}

Cells ==
    {NoneCell, NanCell}
    \cup {NumCell(d) : d \in Numbers}
    \cup {MarkerCell(t) : t \in MissingMarkers}
    \cup {TextCell(d, x) : d \in Numbers, x \in Suffixes}

\* float(s) for the text of a cell: the number, nan, or "raise"
FloatOf(x) ==
    CASE x.type = "number" -> x.d
      [] x.type = "float"  -> NaN
      [] x.type = "str" /\ x.suffix = "" -> x.d
      [] x.type = "marker" /\ x.text \in {"nan", "NaN"} -> NaN
      [] OTHER -> [kind |-> "raise", m |-> 0, e |-> 0]

\* sector_flow_service._parse_percent
ParsePercent(x) ==
    IF x.type = "NoneType" THEN Zero
    ELSE IF x.type = "float" THEN Zero
    ELSE IF x.type = "marker" /\ x.text \in {"--", "-", "", "None", "nan", "NaN"}
    THEN Zero
    ELSE LET s == IF x.type = "str" /\ x.suffix = "%"
                  THEN TextCell(x.d, "") ELSE x
         IN  IF FloatOf(s).kind = "raise" THEN Zero ELSE FloatOf(s)

\* sector_flow_service._parse_rate
ParseRate(v) ==
    IF v.type = "NoneType" THEN Zero
    ELSE IF v.type = "float" THEN Zero
    ELSE IF FloatOf(v).kind = "raise" THEN Zero ELSE FloatOf(v)

\* portfolio_service._safe_float
SafeFloat(x) ==
    IF x.type = "NoneType" THEN Null
    ELSE IF x.type = "float" THEN Null
    ELSE IF x.type = "marker" /\ x.text \in {"", "--", "-", "None", "nan", "NaN"}
    THEN Null
    ELSE IF FloatOf(x).kind = "raise" THEN Null ELSE FloatOf(x)

\* a conversion from 10^4 units that is off by one decimal place
WanToYiByThousand(d) == Scale(d, -3)

\* float(s[:-1]) / 10000.0
WanToYi(d) == Scale(d, -4)

\* `if abs(v) >= 1e6: return v / 1e8` else v
BareToYi(d) == IF AtLeastMillion(d) THEN Scale(d, -8) ELSE d

\* sector_flow_service._parse_cn_amount_to_yi
ParseCnAmountToYi(x) ==
    IF x.type = "NoneType" THEN Zero
    ELSE IF x.type = "float" THEN Zero
    ELSE IF x.type = "number" THEN BareToYi(x.d)
    ELSE IF x.type = "marker" /\ x.text \in {"--", "-", "", "None", "nan", "NaN"}
    THEN Zero
    ELSE IF FloatOf(x).kind = "num" THEN BareToYi(FloatOf(x))
    ELSE IF x.type = "str" /\ x.suffix = "yi" THEN x.d
    ELSE IF x.type = "str" /\ x.suffix = "wan" THEN WanToYi(x.d)
    ELSE IF x.type = "str" /\ x.suffix = "yuan" THEN Scale(x.d, -8)
    ELSE Zero

\* market_scanner._safe_float(v, 0.0)
SafeFloatOrZero(v) ==
    IF v.type = "NoneType" THEN Zero
    ELSE IF v.type = "float" THEN Zero
    ELSE IF FloatOf(v).kind = "raise" THEN Zero ELSE FloatOf(v)

\* market_scanner._flow_to_yuan_if_needed
FlowToYuanIfNeeded(v, assume_unit_yi) ==
    LET x == SafeFloatOrZero(v)
    IN  IF x.kind = "nan" THEN NaN
        ELSE IF assume_unit_yi THEN Scale(x, 8) ELSE x

\* the parsers a percentage cell goes through
PercentParsers == {"_parse_percent", "_parse_rate", "_safe_float"}

Apply(fn, x) ==
    CASE fn = "_parse_percent" -> ParsePercent(x)
      [] fn = "_parse_rate" -> ParseRate(x)
      [] fn = "_safe_float" -> SafeFloat(x)

-----------------------------------------------------------------------------
(* ParserSpec: the parsers applied to cells *)

Parse_percent_field(fn, x) ==
    /\ out' = [op |-> "parse", fn |-> fn, arg |-> x, flag |-> FALSE,
               result |-> Apply(fn, x)]
    /\ UNCHANGED <<now, sector_cache, board_provider, ts>>
    /\ UNCHANGED fetcher
    /\ UNCHANGED rest
    /\ UNCHANGED recommendations

Parse_cn_amount_to_yi(x) ==
    /\ out' = [op |-> "parse", fn |-> "_parse_cn_amount_to_yi", arg |-> x,
               flag |-> FALSE, result |-> ParseCnAmountToYi(x)]
    /\ UNCHANGED <<now, sector_cache, board_provider, ts>>
    /\ UNCHANGED fetcher
    /\ UNCHANGED rest
    /\ UNCHANGED recommendations

Flow_to_yuan_if_needed(v, assume_unit_yi) ==
    /\ out' = [op |-> "parse", fn |-> "_flow_to_yuan_if_needed", arg |-> v,
               flag |-> assume_unit_yi,
               result |-> FlowToYuanIfNeeded(v, assume_unit_yi)]
    /\ UNCHANGED <<now, sector_cache, board_provider, ts>>
    /\ UNCHANGED fetcher
    /\ UNCHANGED rest
    /\ UNCHANGED recommendations

ParserInit == InitWith(TRUE)

ParserNext ==
    \/ \E fn \in PercentParsers, x \in Cells : Parse_percent_field(fn, x)
    \/ \E x \in Cells : Parse_cn_amount_to_yi(x)
    \/ \E v \in Cells, assume_unit_yi \in BOOLEAN :
          Flow_to_yuan_if_needed(v, assume_unit_yi)

ParserSpec == ParserInit /\ [][ParserNext]_vars

-----------------------------------------------------------------------------
(* GzSpec: backend/portfolio_service.fetch_fund_gz, from the parsed fundgz   *)
(* answer on.  A date is a day number, day 0 a Monday; a net asset value is  *)
(* in hundredths, a percentage in whole percent; {} is None.                 *)

\* date.weekday(): 0 Monday .. 6 Sunday
Weekday(d) == d % 7

\* _prev_trade_day
RECURSIVE BackToWeekday(_)
BackToWeekday(d) == IF Weekday(d) >= 5 THEN BackToWeekday(d - 1) ELSE d

PrevTradeDay(d) == BackToWeekday(d - 1)

\* _latest_expected_settled_date
LatestExpectedSettledDate(day, hour) ==
    IF Weekday(day) >= 5 THEN BackToWeekday(day)
    ELSE IF hour >= 20 THEN day
    ELSE PrevTradeDay(day)

\* _is_nav_settled: jzrq is {} when the field does not parse as a date
IsNavSettled(jzrq, day, hour) ==
    IF jzrq = {} THEN FALSE
    ELSE (CHOOSE d \in jzrq : TRUE) >= LatestExpectedSettledDate(day, hour)

\* (nav - prev) / prev * 100, for the values of the model, where it is whole
ChangePct(nav, prev) == ((nav - prev) * 100) \div prev

\* today runs over one week, the clock over the hours around 20:00
GzDays == 7..13

GzHours == {19, 20}

\* the fund: its close of the day before jzrq, its settled value of jzrq and
\* the intraday estimate that fundgz still reports
PrevClose == 100

SettledNav == 102

EstimatedNav == 101

\* the fundgz answer: gsz and gszzl are the estimate and its change against
\* dwjz; dwjz is the latest published value, the one of jzrq
GzAnswers ==
    {[gsz |-> {EstimatedNav}, dwjz |-> {SettledNav},
      gszzl |-> {ChangePct(EstimatedNav, PrevClose)}, jzrq |-> j] :
        j \in {{}} \cup {{d} : d \in 4..13}}

\* what _fetch_settled_nav_snapshot may return: nothing, the value alone (the
\* daily table has no change column for the fund, and the history series
\* starts at jzrq), or the value with the previous close and the change
Snapshots ==
    {[nav |-> {}, prev_nav |-> {}, daily_change_pct |-> {}],
     [nav |-> {SettledNav}, prev_nav |-> {}, daily_change_pct |-> {}],
     [nav |-> {SettledNav}, prev_nav |-> {PrevClose},
      daily_change_pct |-> {ChangePct(SettledNav, PrevClose)}]}

\* `x if x is not None else y`
Or(x, y) == IF x # {} THEN x ELSE y

\* fetch_fund_gz after the HTTP call: the record built from the fundgz answer
\* and what the settled snapshot replaces in it
FetchFundGz(gz, snap, day, hour) ==
    LET est == [nav |-> Or(gz.gsz, gz.dwjz), prev_nav |-> gz.dwjz,
                daily_change_pct |-> gz.gszzl, jzrq |-> gz.jzrq,
                source |-> "fundgz"]
    IN  IF IsNavSettled(gz.jzrq, day, hour) /\ snap.nav # {}
        THEN [nav |-> Or(snap.nav, est.nav),
              prev_nav |-> Or(snap.prev_nav, est.prev_nav),
              daily_change_pct |-> Or(snap.daily_change_pct, est.daily_change_pct),
              jzrq |-> est.jzrq, source |-> "settled_nav"]
        ELSE est

Fetch_fund_gz(gz, snap, today_, hour) ==
    /\ out' = [op |-> "fetch_fund_gz", gz |-> gz, snap |-> snap,
               today |-> today_, hour |-> hour,
               result |-> FetchFundGz(gz, snap, today_, hour)]
    /\ UNCHANGED <<now, sector_cache, board_provider, ts>>
    /\ UNCHANGED fetcher
    /\ UNCHANGED rest
    /\ UNCHANGED recommendations

GzInit == InitWith(TRUE)

GzNext ==
    \E gz \in GzAnswers, snap \in Snapshots, today_ \in GzDays, hour \in GzHours :
        Fetch_fund_gz(gz, snap, today_, hour)

GzSpec == GzInit /\ [][GzNext]_vars

-----------------------------------------------------------------------------
(* ColSpec: the column pickers, portfolio_service._pick_col_contains and     *)
(* market_scanner._pick_col.  A column name or an alias is the sequence of   *)
(* its characters, each written by its reading; `k in text` is containment   *)
(* of k as a contiguous run.                                                 *)

\* `k in text`
In(k, text) ==
    \E i \in 0..(Len(text) - Len(k)) :
        \A j \in 1..Len(k) : text[i + j] = k[j]

\* the names of the daily table's columns: fund code, NAV date, unit NAV, and
\* daily growth rate
ColumnNames ==
    {<<"ji", "jin", "dai", "ma">>, <<"jing", "zhi", "ri", "qi">>,
     <<"dan", "wei", "jing", "zhi">>, <<"ri", "zeng", "zhang", "lv">>}

\* most columns a table of the model has
MaxCols == 3

RECURSIVE SeqsUpTo(_, _)
SeqsUpTo(S, n) ==
    IF n = 0 THEN {<<>>}
    ELSE LET shorter == SeqsUpTo(S, n - 1)
         IN  shorter \cup {Append(q, x) : q \in shorter, x \in S}

\* tables: every order of up to MaxCols different columns
Tables ==
    {cols \in SeqsUpTo(ColumnNames, MaxCols) :
        \A i, j \in DOMAIN cols : i # j => cols[i] # cols[j]}

\* the alias lists of _fetch_open_fund_daily_snapshot for the NAV column
\* (unit NAV, latest NAV, NAV) and for the date column (NAV date, date, update)
AliasLists ==
    {<< <<"dan", "wei", "jing", "zhi">>, <<"zui", "xin", "jing", "zhi">>,
        <<"jing", "zhi">> >>,
     << <<"jing", "zhi", "ri", "qi">>, <<"ri", "qi">>, <<"geng", "xin">> >>}

\* no column: None
NoCol == <<>>

\* the first element of seq that is in the set good, None when there is none
First(seq, good) ==
    LET at == {i \in DOMAIN seq : seq[i] \in good}
    IN  IF at = {} THEN NoCol
        ELSE seq[CHOOSE i \in at : \A j \in at : i <= j]

\* _pick_col_contains: `for c in cols: for k in keys: if k in text: return text`
PickColContains(cols, keys) ==
    First(cols, {c \in Range(cols) : \E n \in DOMAIN keys : In(keys[n], c)})

\* _pick_col: `for kw in candidates: for c in cols: if kw in c: return c`
RECURSIVE PickColFrom(_, _, _)
PickColFrom(cols, candidates, n) ==
    IF n > Len(candidates) THEN NoCol
    ELSE LET found == First(cols, {c \in Range(cols) : In(candidates[n], c)})
         IN  IF found # NoCol THEN found
             ELSE PickColFrom(cols, candidates, n + 1)

PickCol(cols, candidates) == PickColFrom(cols, candidates, 1)

Pickers == {"_pick_col_contains", "_pick_col"}

Pick_col(fn, cols, keys) ==
    /\ out' = [op |-> "pick", fn |-> fn, cols |-> cols, keys |-> keys,
               result |-> IF fn = "_pick_col" THEN PickCol(cols, keys)
                          ELSE PickColContains(cols, keys)]
    /\ UNCHANGED <<now, sector_cache, board_provider, ts>>
    /\ UNCHANGED fetcher
    /\ UNCHANGED rest
    /\ UNCHANGED recommendations

ColInit == InitWith(TRUE)

ColNext ==
    \E fn \in Pickers, cols \in Tables, keys \in AliasLists : Pick_col(fn, cols, keys)

ColSpec == ColInit /\ [][ColNext]_vars

-----------------------------------------------------------------------------
(* RetrySpec: the retry loops inside one adapter call, the AkShare fetch of  *)
(* sector_fund_flow_core and run_fund_daily._http_get_json.  The loop        *)
(* variable, the outcomes of the attempts and the sleeps taken are locals    *)
(* of the calling thread.  Sleeps are in tenths of a second.                 *)

\* the two loops
RetryLoops == {"akshare", "_http_get_json"}

\* `for attempt in range(3)`
AkAttempts == 3

\* [0.6, 1.4, 3.0]
AkBackoff == <<6, 14, 30>>

\* the values of the parameter tries (3 at the one call site and by default)
TriesArgs == {0, 1, 2, 3}

\* the values of the parameter sleep_s (0.6 at the one call site and by default)
SleepArgs == {3, 6, 10, 20}

\* the length of the range the loop runs over
Attempts(fn, tries) ==
    IF fn = "akshare" THEN AkAttempts ELSE IF tries < 1 THEN 1 ELSE tries

WaitFlat(fn, i, sleep_s) == sleep_s

\* the sleep after the failure of the attempt with loop variable i
Wait(fn, i, sleep_s) ==
    IF fn = "akshare" THEN AkBackoff[i + 1] ELSE sleep_s * (i + 1)

\* what the caller gets when every attempt failed: the AkShare loop raises
\* last_exc into the handler that goes to the fallback provider,
\* _http_get_json returns None
HandedBack(fn) == IF fn = "akshare" THEN "fallback" ELSE "None"

\* a thread outside the loops
NoLoop ==
    [pc |-> "idle", fn |-> "none", tries |-> 0, sleep_s |-> 0, i |-> 0,
     results |-> <<>>, slept |-> <<>>, ret |-> "none"]

\* the thread that makes the adapter call
RetryCaller == CHOOSE th \in Threads : \A other \in Threads : th <= other

\* the call is made; _http_get_json returns None at once without a session
Retry_call(th, fn, tries, sleep_s, session) ==
    /\ thread[th].pc = "idle"
    /\ fn = "akshare" => tries = AkAttempts /\ sleep_s = AkBackoff[1] /\ session
    /\ thread' = [thread EXCEPT ![th] =
                    [NoLoop EXCEPT !.pc = IF session THEN "try" ELSE "handed",
                                   !.fn = fn, !.tries = tries,
                                   !.sleep_s = sleep_s,
                                   !.ret = IF session THEN "none" ELSE "None"]]
    /\ UNCHANGED <<now, out, sector, flow_cache, locks>>
    /\ UNCHANGED fetcher
    /\ UNCHANGED recommendations

\* one pass through the try block: the vendor answers (break / return) or raises
Retry_attempt(th, answered) ==
    LET r == thread[th]
    IN  /\ r.pc = "try"
        /\ thread' = [thread EXCEPT ![th] =
                        [r EXCEPT !.results = Append(r.results,
                                                     IF answered THEN "ok" ELSE "raise"),
                                  !.pc = IF answered THEN "handed" ELSE "sleep",
                                  !.ret = IF answered THEN "value" ELSE "none"]]
        /\ UNCHANGED <<now, out, sector, flow_cache, locks>>
        /\ UNCHANGED fetcher
        /\ UNCHANGED recommendations

\* the except block: time.sleep, then the loop goes on or is exhausted
Retry_sleep(th) ==
    LET r == thread[th]
    IN  /\ r.pc = "sleep"
        /\ thread' = [thread EXCEPT ![th] =
                        [r EXCEPT !.slept = Append(r.slept, Wait(r.fn, r.i, r.sleep_s)),
                                  !.i = r.i + 1,
                                  !.pc = IF r.i + 1 < Attempts(r.fn, r.tries)
                                         THEN "try" ELSE "handed",
                                  !.ret = IF r.i + 1 < Attempts(r.fn, r.tries)
                                          THEN "none" ELSE HandedBack(r.fn)]]
        /\ UNCHANGED <<now, out, sector, flow_cache, locks>>
        /\ UNCHANGED fetcher
        /\ UNCHANGED recommendations

\* the caller goes on with what it was handed
Retry_return(th) ==
    /\ thread[th].pc = "handed"
    /\ thread' = [thread EXCEPT ![th] = NoLoop]
    /\ out' = [op |-> "retry", fn |-> thread[th].fn, result |-> thread[th].ret]
    /\ UNCHANGED <<now, sector, flow_cache, locks>>
    /\ UNCHANGED fetcher
    /\ UNCHANGED recommendations

RetryInit ==
    /\ FetcherStart(TRUE)
    /\ sector_cache = [k \in SectorKeys |-> NoEntry]
    /\ flow_cache = [k \in FlowKeys |-> NoFlow]
    /\ board_provider = "akshare"
    /\ ts = FALSE
    /\ out = NoCall
    /\ rec_cache = [data |-> NoData, timestamp |-> 0, date |-> -1, computing |-> FALSE]
    /\ today = 0
    /\ refresh_queued = FALSE
    /\ locks = [flow_cache_lock |-> 0, CACHE_LOCK |-> 0]
    /\ thread = [th \in Threads |-> NoLoop]

RetryNext ==
    \/ \E fn \in RetryLoops, tries \in TriesArgs, sleep_s \in SleepArgs,
          session \in BOOLEAN : Retry_call(RetryCaller, fn, tries, sleep_s, session)
    \/ \E answered \in BOOLEAN : Retry_attempt(RetryCaller, answered)
    \/ Retry_sleep(RetryCaller)
    \/ Retry_return(RetryCaller)

\* an attempt returns or raises (the GET carries timeout=10), and a sleep ends
RetrySpec ==
    /\ RetryInit
    /\ [][RetryNext]_vars
    /\ WF_vars(\E answered \in BOOLEAN : Retry_attempt(RetryCaller, answered))
    /\ WF_vars(Retry_sleep(RetryCaller))

-----------------------------------------------------------------------------
(* ProxySpec: threads entering and leaving akshare_no_proxy contexts.  The   *)
(* context manager takes no lock: the statements of __enter__ and __exit__   *)
(* of one thread interleave with those of another.                           *)

\* a thread outside every context: where it stands, and the fields of _Ctx
NoCtx ==
    [pc |-> "idle",
     removed |-> [k \in EnvKeys |-> Unset],
     old_no_proxy |-> Unset,
     old_get_environ_proxies |-> Library,
     old_should_bypass |-> Library,
     old_session_request |-> Library]

ProxyFrame ==
    /\ UNCHANGED <<now, out, sector, flow_cache, locks>>
    /\ UNCHANGED <<ak, rows, fail_count, last_fail_time, streak, last>>
    /\ UNCHANGED recommendations

\* __enter__: self._removed = _clear_proxy_env_temporarily()
Enter_clear(th) ==
    /\ thread[th].pc = "idle"
    /\ thread' = [thread EXCEPT ![th] = [NoCtx EXCEPT !.pc = "get_no_proxy",
                                                      !.removed = process.environ]]
    /\ process' = [process EXCEPT !.environ = [k \in EnvKeys |-> Unset]]
    /\ ProxyFrame

\* self._old_no_proxy = os.environ.get("NO_PROXY")
Enter_get_no_proxy(th) ==
    /\ thread[th].pc = "get_no_proxy"
    /\ thread' = [thread EXCEPT ![th].pc = "set_no_proxy",
                                ![th].old_no_proxy = process.environ["NO_PROXY"]]
    /\ UNCHANGED process
    /\ ProxyFrame

\* os.environ["NO_PROXY"] = "*"
Enter_set_no_proxy(th) ==
    /\ thread[th].pc = "set_no_proxy"
    /\ thread' = [thread EXCEPT ![th].pc = "utils"]
    /\ process' = [process EXCEPT !.environ["NO_PROXY"] = "*"]
    /\ ProxyFrame

\* the two functions of requests.utils are kept and replaced
Enter_utils(th) ==
    /\ thread[th].pc = "utils"
    /\ thread' = [thread EXCEPT
                    ![th].pc = "request",
                    ![th].old_get_environ_proxies = process.get_environ_proxies,
                    ![th].old_should_bypass = process.should_bypass_proxies]
    /\ process' = [process EXCEPT !.get_environ_proxies = th,
                                  !.should_bypass_proxies = th]
    /\ ProxyFrame

\* Session.request is kept and replaced; __enter__ returns
Enter_request(th) ==
    /\ thread[th].pc = "request"
    /\ thread' = [thread EXCEPT ![th].pc = "inside",
                                ![th].old_session_request = process.request]
    /\ process' = [process EXCEPT !.request = th]
    /\ ProxyFrame

\* __exit__: the three attributes are set back to what __enter__ kept
Exit_functions(th) ==
    /\ thread[th].pc = "inside"
    /\ thread' = [thread EXCEPT ![th].pc = "exit_no_proxy"]
    /\ process' = [process EXCEPT
                     !.get_environ_proxies = thread[th].old_get_environ_proxies,
                     !.should_bypass_proxies = thread[th].old_should_bypass,
                     !.request = thread[th].old_session_request]
    /\ ProxyFrame

\* NO_PROXY is popped, or set back to what __enter__ read
Exit_no_proxy(th) ==
    /\ thread[th].pc = "exit_no_proxy"
    /\ thread' = [thread EXCEPT ![th].pc = "restore_env"]
    /\ process' = [process EXCEPT !.environ["NO_PROXY"] = thread[th].old_no_proxy]
    /\ ProxyFrame

\* _restore_env(self._removed); __exit__ returns
Exit_restore_env(th) ==
    /\ thread[th].pc = "restore_env"
    /\ thread' = [thread EXCEPT ![th] = NoCtx]
    /\ process' = [process EXCEPT !.environ =
                     [k \in EnvKeys |-> IF thread[th].removed[k] # Unset
                                        THEN thread[th].removed[k]
                                        ELSE process.environ[k]]]
    /\ ProxyFrame

ProxyInit ==
    /\ FetcherStart(TRUE)
    /\ sector_cache = [k \in SectorKeys |-> NoEntry]
    /\ flow_cache = [k \in FlowKeys |-> NoFlow]
    /\ board_provider = "akshare"
    /\ ts = FALSE
    /\ out = NoCall
    /\ rec_cache = [data |-> NoData, timestamp |-> 0, date |-> -1, computing |-> FALSE]
    /\ today = 0
    /\ refresh_queued = FALSE
    /\ locks = [flow_cache_lock |-> 0, CACHE_LOCK |-> 0]
    /\ thread = [th \in Threads |-> NoCtx]

ProxyNext ==
    \/ \E th \in Threads : Enter_clear(th)
    \/ \E th \in Threads : Enter_get_no_proxy(th)
    \/ \E th \in Threads : Enter_set_no_proxy(th)
    \/ \E th \in Threads : Enter_utils(th)
    \/ \E th \in Threads : Enter_request(th)
    \/ \E th \in Threads : Exit_functions(th)
    \/ \E th \in Threads : Exit_no_proxy(th)
    \/ \E th \in Threads : Exit_restore_env(th)

ProxySpec == ProxyInit /\ [][ProxyNext]_vars

-----------------------------------------------------------------------------
(* RecThreadSpec: threads of the server's pool in the recommendations        *)
(* routes and in the background tasks these queue.  _compute_recommendations *)
(* takes no lock: testing the flag, setting it and the computation are       *)
(* steps that interleave with those of other threads.                        *)

\* the cache when the try block is left, before `finally`
CacheAfterTry(c, outcome, t, d) ==
    IF outcome = "return"
    THEN [data |-> DailyResult(t, d), timestamp |-> t, date |-> d,
          computing |-> c.computing]
    ELSE c

\* a flag that is cleared only when the computation returned
ComputingAfterReturn(outcome) == outcome # "return"

\* `finally: _CACHE["computing"] = False`
ComputingAfter(outcome) == FALSE

RecThreadFrame ==
    /\ UNCHANGED <<flow_cache, locks>>
    /\ UNCHANGED fetcher
    /\ UNCHANGED sector

\* GET /api/recommendations up to the return of cached data or the call of
\* _compute_recommendations
Rec_request(th, force_refresh) ==
    LET valid == IsCacheValid(rec_cache, now, today)
        hit == ~force_refresh /\ valid
    IN  /\ thread[th].pc = "idle"
        /\ thread' = [thread EXCEPT ![th].pc = IF hit THEN "idle" ELSE "compute_test"]
        /\ refresh_queued' =
              (\/ refresh_queued
               \/ hit /\ now - rec_cache.timestamp > CACHE_TTL_SECONDS - RefreshWindow)
        /\ out' = IF hit
                  THEN [op |-> "recommendations", force_refresh |-> FALSE,
                        cached |-> TRUE, computing |-> FALSE, ran |-> FALSE,
                        result |-> rec_cache.data]
                  ELSE out
        /\ UNCHANGED <<now, today, rec_cache>>
        /\ RecThreadFrame

\* POST /api/recommendations/refresh
Refresh_recommendations(th) ==
    /\ thread[th].pc = "idle"
    /\ refresh_queued' = (refresh_queued \/ ~rec_cache.computing)
    /\ out' = [op |-> "refresh", ok |-> ~rec_cache.computing]
    /\ UNCHANGED <<now, today, rec_cache, thread>>
    /\ RecThreadFrame

\* a queued _background_refresh task is given to a thread
Background_start(th) ==
    /\ thread[th].pc = "idle"
    /\ refresh_queued
    /\ refresh_queued' = FALSE
    /\ thread' = [thread EXCEPT ![th].pc = "compute_test"]
    /\ UNCHANGED <<now, today, rec_cache, out>>
    /\ RecThreadFrame

\* _compute_recommendations: `if _CACHE["computing"]:`
Compute_test(th) ==
    /\ thread[th].pc = "compute_test"
    /\ thread' = [thread EXCEPT
                     ![th].pc = IF rec_cache.computing THEN "idle" ELSE "compute_set"]
    /\ out' = IF rec_cache.computing
              THEN [op |-> "compute", outcome |-> "skipped",
                    result |-> IF rec_cache.data # NoData THEN rec_cache.data
                               ELSE ComputingResult]
              ELSE out
    /\ UNCHANGED <<now, today, rec_cache, refresh_queued>>
    /\ RecThreadFrame

\* _compute_recommendations: `_CACHE["computing"] = True`
Compute_set(th) ==
    /\ thread[th].pc = "compute_set"
    /\ rec_cache' = [rec_cache EXCEPT !.computing = TRUE]
    /\ thread' = [thread EXCEPT ![th].pc = "computing"]
    /\ UNCHANGED <<now, today, out, refresh_queued>>
    /\ RecThreadFrame

\* compute_daily_result returns or raises; the cache update, `finally`
Compute_end(th, outcome) ==
    /\ thread[th].pc = "computing"
    /\ rec_cache' = [CacheAfterTry(rec_cache, outcome, now, today) EXCEPT
                        !.computing = ComputingAfter(outcome)]
    /\ thread' = [thread EXCEPT ![th].pc = "idle"]
    /\ out' = [op |-> "compute", outcome |-> outcome,
               result |-> IF outcome = "return" THEN DailyResult(now, today)
                          ELSE ErrorResult]
    /\ UNCHANGED <<now, today, refresh_queued>>
    /\ RecThreadFrame

RecThreadInit == InitWith(TRUE)

RecThreadNext ==
    \/ RecTick
    \/ Midnight
    \/ \E th \in Threads, force_refresh \in BOOLEAN : Rec_request(th, force_refresh)
    \/ \E th \in Threads : Refresh_recommendations(th)
    \/ \E th \in Threads : Background_start(th)
    \/ \E th \in Threads : Compute_test(th)
    \/ \E th \in Threads : Compute_set(th)
    \/ \E th \in Threads, outcome \in ComputeOutcomes : Compute_end(th, outcome)

RecThreadSpec == RecThreadInit /\ [][RecThreadNext]_vars

-----------------------------------------------------------------------------
(* PersistentCache: the claims *)

\* C1: a get on a key set at T0 with TTL t returns the stored value at every
\* T0 <= T <= T0 + t, the boundary included, and None at every T > T0 + t
C1_GetHitsThroughBoundary ==
    (last.op = "get" /\ rows[last.key] # NoRow) =>
        IF now <= rows[last.key].expires_at
        THEN last.result = JsonLoads(rows[last.key].value)
        ELSE last.result = None

\* C2: some read of the store returns the value of an expired row that is
\* still in the table, and flags it stale
C2_StaleReadOffered ==
    \A key \in Keys :
        (rows[key] # NoRow /\ now > rows[key].expires_at) =>
            \E op \in CacheReads :
                ReadResult(op, rows, key, now) =
                    [value |-> JsonLoads(rows[key].value), is_stale |-> TRUE]

-----------------------------------------------------------------------------
(* DataSource: the claims *)

\* C4: after exactly `threshold` record_failure calls since the last
\* record_success, is_available is false as long as now - last_fail_time is
\* at most the cooldown, and true once it is more
C4_OpenAfterThreshold ==
    \A s \in DOMAIN fail_count :
        streak[s].consec = circuit_breaker_threshold =>
            (IsAvailableResult(fail_count[s], last_fail_time[s], now)
                <=> now - last_fail_time[s] > circuit_breaker_timeout)

C4_Witness ==
    /\ last.op = "is_available"
    /\ streak[last.src].consec = circuit_breaker_threshold
    /\ now - last_fail_time[last.src] = circuit_breaker_timeout
    /\ last.flag = FALSE

\* C5: once the circuit has opened and no call has succeeded since, a failure
\* leaves the source unavailable for a cooldown, also when that failure is the
\* retry made after the previous cooldown
C5_RetryFailureReopens ==
    \A s \in DOMAIN fail_count :
        (streak[s].opened /\ now - last_fail_time[s] <= circuit_breaker_timeout) =>
            ~IsAvailableResult(fail_count[s], last_fail_time[s], now)

-----------------------------------------------------------------------------
(* DataFetcher.fetch_with_fallback: the claims *)

\* C3: a call with use_cache whose sources all raised or were rejected, made
\* when the table holds a row for the key that an earlier call wrote and that
\* has expired since, returns the value of that row
C3_StaleValueOnTotalFailure ==
    (/\ last.op = "fetch" /\ last.use_cache /\ last.listed
     /\ ~last.raised /\ last.live = "" /\ ~last.write_failed
     /\ rows[last.key] # NoRow
     /\ now > rows[last.key].expires_at)
        => last.result = JsonLoads(rows[last.key].value)

\* C6: record_success leaves fail_count at 0 whatever it was, and the source
\* a fetch_with_fallback call got its data from has fail_count 0 on return
C6_SuccessResetsCount ==
    /\ \A fc \in 0..MaxFails : RecordSuccessCount(fc) = 0
    /\ (last.op = "fetch" /\ last.live # "") => fail_count[last.live] = 0

C6_Witness ==
    /\ last.op = "fetch"
    /\ last.live = "fund_realtime/akshare"
    /\ last_fail_time[last.live] > 0
    /\ fail_count[last.live] = 0

\* C7: the list a call builds holds exactly the sources of the data type that
\* were available when the call was made, each once, by descending priority,
\* and the call invokes no source outside that list
C7_AvailableByPriority ==
    [][ (last'.op = "fetch" /\ last'.listed) =>
          LET of_type == {s \in Range(Registry[ak]) :
                              s.data_type = last'.data_type}
              available ==
                  {s \in of_type :
                      \/ fail_count[s.id] < circuit_breaker_threshold
                      \/ now - last_fail_time[s.id] > circuit_breaker_timeout}
              built == last'.built
              priority(id) == (CHOOSE s \in of_type : s.id = id).priority
          IN  /\ Range(built) = {s.id : s \in available}
              /\ Len(built) = Cardinality(available)
              /\ \A i, j \in DOMAIN built :
                    i < j => priority(built[i]) >= priority(built[j])
              /\ Range(last'.invoked) \subseteq Range(built)
      ]_vars

C7_Witness ==
    /\ last.op = "fetch"
    /\ fail_count["fund_realtime/eastmoney_fundgz"] >= circuit_breaker_threshold
    /\ last.built = <<"fund_realtime/akshare">>
    /\ last.invoked = <<"fund_realtime/akshare">>

\* C8: a call with use_cache, made when the table holds a row for the key
\* that has a value and whose expires_at is not yet behind the clock, and
\* whose validator (if any) does not turn that value down, returns the row's
\* value and invokes no source
C8_FreshCacheHit ==
    [][ (/\ last'.op = "fetch" /\ last'.use_cache
         /\ last'.cache_read # "raise"
         /\ last'.cached_verdict \notin {"reject", "raise"}
         /\ rows[last'.key] # NoRow
         /\ JsonLoads(rows[last'.key].value) # None
         /\ now <= rows[last'.key].expires_at)
        => /\ last'.from_cache
           /\ last'.invoked = <<>>
           /\ last'.result = JsonLoads(rows[last'.key].value)
      ]_vars

\* C9: a call given a validator writes the cache only with a value the
\* validator accepted in this call; without such a value, and when the call
\* raises, the table is left as it was
C9_ValidatorGatesCacheWrite ==
    [][ (last'.op = "fetch" /\ last'.has_validator) =>
          LET written == last'.written
          IN  /\ \A i \in DOMAIN written : written[i].verdict = "accept"
              /\ written = <<>> => rows' = rows
              /\ written # <<>> =>
                    /\ rows'[last'.key].value = JsonDumps(written[Len(written)].data)
                    /\ \A k \in Keys \ {last'.key} : rows'[k] = rows[k]
              /\ last'.raised => rows' = rows
      ]_vars

C9_Witness ==
    /\ last.op = "fetch" /\ last.has_validator
    /\ Len(last.invoked) = 2
    /\ fail_count[last.invoked[1]] = 0
    /\ last.live = last.invoked[2]
    /\ last.written = <<[data |-> Quote, verdict |-> "accept"]>>

\* C10: whatever the cached row, the fetchers, the validator and the cache
\* write do, the call returns and does not raise
C10_NeverRaises ==
    (last.op = "fetch" /\ last.cache_read # "raise") => ~last.raised

\* C11: a call made with no row for the key, in which the highest-priority
\* source of the type raises and the next source returns, returns what that
\* next source gave, leaves the first source's fail_count one higher than it
\* was before the call and the second source's at 0
C11_FallbackToSecondSource ==
    [][ (/\ last'.op = "fetch"
         /\ rows[last'.key] = NoRow
         /\ last'.outcomes = <<"raise", "return">>
         /\ \A s \in Range(Registry[ak]) :
               s.data_type = last'.data_type =>
                  \E a \in Range(Registry[ak]) :
                     a.id = last'.invoked[1] /\ a.priority >= s.priority)
        => /\ last'.live = last'.invoked[2]
           /\ last'.use_cache =>
                 rows'[last'.key].value = JsonDumps(last'.result)
           /\ fail_count'[last'.invoked[1]] = fail_count[last'.invoked[1]] + 1
           /\ fail_count'[last'.invoked[2]] = 0
      ]_vars

\* C14: once a call has written the value it fetched, a cache.get of the key
\* within the TTL returns a value equal to the one the call returned
C14_CacheRoundTrip ==
    (last.op = "fetch" /\ last.written # <<>>)
        => CacheGet(rows, last.key, now) = last.result

\* C18: the call returns what the first source that gave validator-passing
\* data returned, invokes no source after it and leaves that source's
\* fail_count at 0, also when the cache write after the success raises
C18_FirstSuccessWins ==
    \A i \in DOMAIN last.outcomes :
        (/\ last.op = "fetch"
         /\ last.outcomes[i] \in {"return", "write_raise"}
         /\ \A j \in 1..(i - 1) : last.outcomes[j] \notin {"return", "write_raise"})
            => /\ Len(last.invoked) = i
               /\ last.invoked = SubSeq(last.built, 1, i)
               /\ last.live = last.invoked[i]
               /\ fail_count[last.invoked[i]] = 0

\* C19: a source whose answer the validator rejects has its fail_count
\* incremented and its last_fail_time set, as when its adapter raises
C19_RejectionCountsAsFailure ==
    [][ \A i \in DOMAIN last'.outcomes :
          (last'.op = "fetch" /\ last'.outcomes[i] \in {"reject", "raise"}) =>
              /\ fail_count'[last'.invoked[i]] =
                    IsAvailableCount(fail_count[last'.invoked[i]],
                                     last_fail_time[last'.invoked[i]], now) + 1
              /\ last_fail_time'[last'.invoked[i]] = now
      ]_vars

\* C19 as amended: a rejected answer is recorded neither as a failure nor as
\* a success: the source's last_fail_time stays and its fail_count is what
\* the availability check left; only a raise increments the count and sets
\* the time
C19_RejectionNotCounted ==
    [][ \A i \in DOMAIN last'.outcomes :
          LET s == last'.invoked[i]
              checked == IsAvailableCount(fail_count[s], last_fail_time[s], now)
          IN  /\ (last'.op = "fetch" /\ last'.outcomes[i] = "reject") =>
                    /\ fail_count'[s] = checked
                    /\ last_fail_time'[s] = last_fail_time[s]
              /\ (last'.op = "fetch" /\ last'.outcomes[i] = "raise") =>
                    /\ fail_count'[s] = checked + 1
                    /\ last_fail_time'[s] = now
      ]_vars

C19_Witness ==
    /\ last.op = "fetch"
    /\ last.outcomes = <<"reject", "reject">>
    /\ now > 0
    /\ \A i \in DOMAIN last.invoked :
          /\ fail_count[last.invoked[i]] = 0
          /\ last_fail_time[last.invoked[i]] = 0

\* C20: updates of a DataSource's health are serialized: a thread about to
\* store into fail_count finds there the value it read (no other thread's
\* store came between its read and its write), and once the threads are all
\* out of their calls, with no call that zeroes the count made, fail_count
\* is the number of record_failure calls made
C20_UpdatesSerialized ==
    /\ \A th \in Threads :
          thread[th].pc \in {"rf_write", "ia_reset"} =>
              fail_count[Shared] = thread[th].fail_count
    /\ (\A th \in Threads : thread[th].pc = "idle" /\ ~thread[th].zeroed) =>
          fail_count[Shared] = FailuresBegun(MaxThreads)

-----------------------------------------------------------------------------
(* sector_fund_flow_core: the claims *)

\* C12: a reply is marked stale exactly when its items come from a cache
\* entry that had expired, returned after every vendor tried in the call failed
C12_StaleMeansExpiredCache ==
    out.op = "sector" =>
        (out.stale <=> (out.from_cache /\ out.expired /\ out.contacted # <<>>))

\* C13: with the provider set to tushare, akshare or ths, the call contacts no
\* other vendor
C13_ForcedProviderOnly ==
    (out.op = "sector" /\ out.p \in {"tushare", "akshare", "ths"})
        => Range(out.contacted) \subseteq {out.p}

\* C13 as amended: ths is the only exclusive setting; tushare falls through
\* to akshare only, akshare to ths only, and vendors are tried in the order
\* tushare, akshare, ths, the one that answers being the last
C13_ProviderFallThrough ==
    out.op = "sector" =>
        /\ out.p = "ths" => Range(out.contacted) \subseteq {"ths"}
        /\ out.p = "tushare" => Range(out.contacted) \subseteq {"tushare", "akshare"}
        /\ out.p = "akshare" => Range(out.contacted) \subseteq {"akshare", "ths"}
        /\ \A i, j \in DOMAIN out.contacted :
              (i < j) =>
                 <<out.contacted[i], out.contacted[j]>> \in
                    {<<"tushare", "akshare">>, <<"tushare", "ths">>, <<"akshare", "ths">>}
        /\ (out.ok /\ ~out.from_cache) =>
              out.provider = out.contacted[Len(out.contacted)]

C13_Witness ==
    /\ out.op = "sector" /\ out.p = "tushare"
    /\ out.contacted = <<"tushare", "akshare">>
    /\ out.stale /\ out.from_cache

\* C22: the service cache never holds an empty answer, and a reply served
\* from the cache within its TTL is never an empty one
C22_NoEmptyAnswerCached ==
    /\ \A k \in SectorKeys :
          sector_cache[k] # NoEntry => sector_cache[k].items # <<>>
    /\ (out.op = "sector" /\ out.from_cache /\ ~out.stale) => out.items # <<>>

\* C21: a thread inside a vendor call holds neither cache lock; each lock
\* is held only by a thread at the dictionary read or write it guards, so a
\* thread waiting to read a cache waits for no vendor call
C21_NoVendorCallUnderLock ==
    /\ \A th \in Threads :
          thread[th].pc = "vendor" =>
              locks.flow_cache_lock # th /\ locks.CACHE_LOCK # th
    /\ locks.flow_cache_lock # 0 =>
          thread[locks.flow_cache_lock].pc \in {"flow_read", "flow_write"}
    /\ locks.CACHE_LOCK # 0 =>
          thread[locks.CACHE_LOCK].pc \in {"core_read", "core_write"}

\* one thread is inside a vendor call while another reads the service cache
\* under _CACHE_LOCK
C21_Witness ==
    \E a, b \in Threads :
        /\ thread[a].pc = "vendor"
        /\ thread[b].pc = "core_read" /\ locks.CACHE_LOCK = b
        /\ sector_cache # [k \in SectorKeys |-> NoEntry]

\* C25: when jzrq is on or after the expected settlement day (today from
\* 20:00 on a weekday, the weekday before until then, the last Friday at a
\* weekend) and a settled snapshot came, the result has the settled value,
\* the previous close and the change between the two, not the estimated
\* change; when jzrq is earlier, the result is the estimate with source fundgz
C25_SettlementSupersedesEstimate ==
    out.op = "fetch_fund_gz" =>
        LET expected ==
                IF Weekday(out.today) \in {5, 6}
                THEN CHOOSE d \in (out.today - 2)..out.today : Weekday(d) = 4
                ELSE IF out.hour >= 20 THEN out.today
                ELSE CHOOSE d \in (out.today - 3)..(out.today - 1) :
                        /\ Weekday(d) < 5
                        /\ \A e \in (d + 1)..(out.today - 1) : Weekday(e) >= 5
            dated == out.gz.jzrq # {}
            jz == CHOOSE d \in out.gz.jzrq \cup {-1} : dated => d \in out.gz.jzrq
        IN  /\ (dated /\ jz >= expected /\ out.snap.nav # {}) =>
                  /\ out.result.nav = {SettledNav}
                  /\ out.result.prev_nav = {PrevClose}
                  /\ out.result.daily_change_pct = {ChangePct(SettledNav, PrevClose)}
            /\ (dated /\ jz < expected) =>
                  /\ out.result.source = "fundgz"
                  /\ out.result.nav = out.gz.gsz
                  /\ out.result.prev_nav = out.gz.dwjz
                  /\ out.result.daily_change_pct = out.gz.gszzl

\* C26: the column picked contains the earliest alias of the list that any
\* column of the table contains (and none is picked only when no column
\* contains an alias), whatever the order of the columns
C26_AliasPriority ==
    out.op = "pick" =>
        LET Held(n) == \E i \in DOMAIN out.cols : In(out.keys[n], out.cols[i])
            held == {n \in DOMAIN out.keys : Held(n)}
        IN  IF held = {} THEN out.result = NoCol
            ELSE /\ out.result # NoCol
                 /\ \E n \in held :
                       /\ \A m \in held : n <= m
                       /\ In(out.keys[n], out.result)

\* C29: a fresh reply of the router to a request for top_n = k holds the
\* first min(k, rows upstream) items of one vendor's ranking (none when the
\* vendor's table had no rows), whichever cache or vendor it came from
C29_NeverShortChanged ==
    (out.op = "flow" /\ out.ok /\ ~out.stale) =>
        \/ out.items = <<>>
        \/ \E v \in {"tushare", "akshare", "ths"} :
              out.items = Take(Ranking(v), out.top_n)

-----------------------------------------------------------------------------
(* GET /api/recommendations: the claims *)

\* C23: at most one execution of compute_daily_result is in progress at any
\* time, under every interleaving of requests and background refreshes
C23_OneComputationAtATime ==
    Cardinality({th \in Threads : thread[th].pc = "computing"}) <= 1

\* C24: when no computation is in progress the computing flag is false, so
\* that POST /api/recommendations/refresh is accepted; a computation that
\* ends clears the flag, and one that raised leaves the cached data,
\* timestamp and date as they were
C24_FlagNeverSticks ==
    /\ []((\A th \in Threads : thread[th].pc # "computing") => ~rec_cache.computing)
    /\ [][ \A th \in Threads :
             (thread[th].pc = "computing" /\ thread'[th].pc = "idle") =>
                 /\ ~rec_cache'.computing
                 /\ out'.outcome = "raise" =>
                       /\ rec_cache'.data = rec_cache.data
                       /\ rec_cache'.timestamp = rec_cache.timestamp
                       /\ rec_cache'.date = rec_cache.date
         ]_vars

\* computations have run and ended, the flag is clear and a refresh has been
\* accepted since
C24_Witness ==
    /\ \A th \in Threads : thread[th].pc = "idle"
    /\ ~rec_cache.computing
    /\ rec_cache.data # NoData
    /\ now > rec_cache.timestamp
    /\ out = [op |-> "refresh", ok |-> TRUE]
    /\ refresh_queued

\* C15: the `cached` field of a response is true exactly when the request did
\* not run compute_daily_result
C15_CachedMeansNotComputed ==
    out.op = "recommendations" => (out.cached <=> ~out.ran)

-----------------------------------------------------------------------------
(* The cell parsers: the claims *)

\* C16: a percentage parser turns None and every missing marker into null,
\* never into 0.0
C16_MissingIsNull ==
    (/\ out.op = "parse" /\ out.fn \in PercentParsers
     /\ \/ out.arg = NoneCell
        \/ out.arg \in {MarkerCell(t) : t \in {"--", "-", "", "nan", "None"}})
        => out.result = Null

-----------------------------------------------------------------------------
(* The retry loops: the claims *)

\* C27: a retry loop makes at most 3 attempts (as many as tries, and at least
\* one, in _http_get_json), no attempt follows a success, the sleeps taken
\* are the backoff sequence from its start and grow from one to the next,
\* a loop whose attempts all failed hands back the failure (to the fallback
\* provider, or as None) after exactly that many attempts, and every loop
\* that was entered is left
C27_RetryBounded ==
    /\ [](LET r == thread[RetryCaller]
              attempts == Len(r.results)
          IN  /\ attempts <= 3
              /\ attempts <= IF r.fn = "akshare" THEN 3
                             ELSE IF r.tries < 1 THEN 1 ELSE r.tries
              /\ \A k \in 1..(attempts - 1) : r.results[k] = "raise"
              /\ (attempts > 0 /\ r.results[attempts] = "ok")
                    => r.pc = "handed" /\ r.ret = "value"
              /\ Len(r.slept) <= attempts
              /\ \A k \in 1..Len(r.slept) :
                    /\ r.results[k] = "raise"
                    /\ r.slept[k] = IF r.fn = "akshare" THEN <<6, 14, 30>>[k]
                                    ELSE r.sleep_s * k
              /\ \A k \in 1..(Len(r.slept) - 1) : r.slept[k] < r.slept[k + 1]
              /\ (r.pc = "handed" /\ r.ret \in {"fallback", "None"} /\ attempts > 0) =>
                    /\ attempts = IF r.fn = "akshare" THEN 3
                                  ELSE IF r.tries < 1 THEN 1 ELSE r.tries
                    /\ \A k \in 1..attempts : r.results[k] = "raise"
                    /\ r.ret = IF r.fn = "akshare" THEN "fallback" ELSE "None")
    /\ (thread[RetryCaller].pc \in {"try", "sleep"}) ~> (thread[RetryCaller].pc = "handed")

\* the AkShare fetch failed three times, slept 0.6 s, 1.4 s and 3.0 s, and the
\* request goes to the fallback provider
C27_Witness ==
    LET r == thread[RetryCaller]
    IN  /\ r.pc = "handed" /\ r.fn = "akshare"
        /\ r.results = <<"raise", "raise", "raise">>
        /\ r.slept = <<6, 14, 30>>
        /\ r.ret = "fallback"

-----------------------------------------------------------------------------
(* The registry without akshare: the claims *)

\* C28: when the akshare package is missing, get_sources returns no source
\* that needs it, fetch_with_fallback invokes none, and none has failures
\* counted by its circuit breaker
C28_MissingNeverRegistered ==
    ~ak =>
        \A i \in DOMAIN Registry[ak] :
            LET s == Registry[ak][i]
            IN  NeedsAkshare(s.name) =>
                    /\ \A k \in DOMAIN last.built : last.built[k] # s.id
                    /\ \A k \in DOMAIN last.invoked : last.invoked[k] # s.id
                    /\ fail_count[s.id] = 0

-----------------------------------------------------------------------------
(* akshare_no_proxy: the claims *)

\* C30: whenever no thread is inside an akshare_no_proxy context, the proxy
\* variables, NO_PROXY and the three replaced attributes of requests are what
\* they were before the first context was entered
C30_ProcessRestored ==
    (\A th \in Threads : thread[th].pc = "idle") => process = ProcessStart

====
